---- MODULE Spec2Model ----
(***************************************************************************)
(* Model of the TLDM readiness-forecasting backend:                        *)
(*   backend/services/forecasting_engine.py  (ReadinessForecaster)         *)
(*   backend/routes/forecasting.py           (generate / get endpoints,    *)
(*                                            background history store,    *)
(*                                            scenario transformer,        *)
(*                                            accuracy score, validation,  *)
(*                                            accuracy metrics)            *)
(*   backend/models/forecasting.py           (result and history records)  *)
(*                                                                         *)
(* Numbers.  Readiness values are Python floats holding percentages.  The  *)
(* model keeps them in fixed point, in tenths of a percent: 85.0 is 850,   *)
(* the +-5.0 margin is 50, the 0.5 monthly decline is 5.  Every value the  *)
(* engine computes from the inputs used here is exact in tenths.           *)
(*                                                                         *)
(* Dates are day numbers of the clock `now`; strftime('%Y-%m-%d') of       *)
(* now + k days is the day number now + k.                                 *)
(*                                                                         *)
(* JSON.  A scalar of the external response is a record [k, n, s] (kind,   *)
(* number, string); an object is a record whose fields are the keys that   *)
(* are present, so dict.get(key, default) is Get below.                    *)
(***************************************************************************)
EXTENDS Integers, Sequences, FiniteSets, TLC

VARIABLES
    now,               \* the wall clock, in days
    uuid_counter,      \* how many forecast ids uuid4 has drawn so far
    pc,                \* the engine call: "idle" or "done"
    input_data,        \* the ForecastingInput of the engine call
    llm,               \* what chat.send_message did in the engine call
    ret,               \* how the engine call ended: [exc, result, path]
    calls,             \* the results of the calls made while the service is down
    forecast_history,  \* db.forecast_history, in insertion order
    alert_history,     \* db.alert_history, in insertion order
    background_tasks,  \* the _store_forecast_history tasks not yet run
    store_failed,      \* forecast ids whose store task raised (and logged)
    response,          \* the last HTTP response sent
    heap,              \* the ExerciseEvent and SupplyChainData objects alive
    base_input,        \* analyze_scenarios' base_input (holds references)
    base_before,       \* the value of base_input when it was loaded
    argument,          \* the argument of the last _apply_scenario_parameters
    arg_before,        \* the value of that argument when the call began
    modified_input,    \* what the last _apply_scenario_parameters returned
    scenario,          \* the ScenarioParameters of that call
    chain              \* how many times in a row the scenario was applied

vars == <<now, uuid_counter, pc, input_data, llm, ret, calls,
          forecast_history, alert_history, background_tasks, store_failed,
          response, heap, base_input, base_before, argument, arg_before,
          modified_input, scenario, chain>>

engine_vars == <<pc, input_data, llm, ret>>
route_vars == <<forecast_history, alert_history, background_tasks,
                store_failed, response>>
scenario_vars == <<heap, base_input, base_before, argument, arg_before,
                   modified_input, scenario, chain>>

----------------------------------------------------------------------------
\* Bounds of the model.

\* Longest list of projections an external candidate carries.
MaxProj == 3
\* Number of forecasts generated in one behaviour (ids drawn by uuid4).
MaxForecasts == 2
\* Last day the clock reaches.
MaxClock == 1

----------------------------------------------------------------------------
\* Arithmetic helpers.

\* A percentage as the model's fixed-point number (tenths of a percent).
Pct(n) == n * 10

Max(a, b) == IF a >= b THEN a ELSE b
Min(a, b) == IF a <= b THEN a ELSE b

\* The smallest element of a non-empty set of integers.
SetMin(S) == CHOOSE x \in S : \A y \in S : x <= y

\* dict.get(key, default) on a JSON object.
Get(d, key, default) == IF key \in DOMAIN d THEN d[key] ELSE default

\* JSON scalars.
Num(n) == [k |-> "num", n |-> n, s |-> ""]
Str(s) == [k |-> "str", n |-> 0, s |-> s]
\* A JSON value that is an object (a dict), as opposed to a scalar.
IsDict(x) == "k" \notin DOMAIN x

\* The placeholder of a variable or field that holds nothing.
NoValue == [none |-> TRUE]
\* The dict {}: an object with none of the keys the code reads.
EmptyDict == [empty |-> TRUE]

----------------------------------------------------------------------------
\* backend/models/forecasting.py

\* RiskLevel and AlertSeverity: the same four values.
RiskLevel == {"low", "medium", "high", "critical"}
AlertSeverity == {"low", "medium", "high", "critical"}

\* ForecastResult.forecast_id: f"fcst_{date}_{uuid4()[:8]}".  The n-th draw of
\* uuid4 is named n; the date part is the clock's day.
NewForecastId(clock, n) == [date |-> clock, uuid |-> n]
\* The place of a forecast id in a response that names none.
NoForecastId == [date |-> -1, uuid |-> 0]

\* ReadinessProjection(days, readiness, confidence_interval, risk_level).
ReadinessProjection(days, readiness, confidence_interval, risk_level) ==
    [days |-> days, readiness |-> readiness,
     confidence_interval |-> confidence_interval, risk_level |-> risk_level]

\* ConfidenceMetrics(model_accuracy, data_quality_score, forecast_reliability);
\* the two scores are in hundredths.
ConfidenceMetrics(model_accuracy, data_quality_score, forecast_reliability) ==
    [model_accuracy |-> model_accuracy,
     data_quality_score |-> data_quality_score,
     forecast_reliability |-> forecast_reliability]

\* A ForecastResult whose metadata records a measured processing time (here
\* the instant of the call) where the code writes the constant 0.
ForecastResultTimed(clock, n, timeframe, critical_alerts, procurement_recommendations, operation_impact_assessment, mitigation_strategies, confidence_metrics, metadata) ==
    [forecast_id |-> [date |-> clock, uuid |-> n],
     generated_at |-> [day |-> clock, instant |-> n],
     timeframe |-> timeframe,
     critical_alerts |-> critical_alerts,
     procurement_recommendations |-> procurement_recommendations,
     operation_impact_assessment |-> operation_impact_assessment,
     mitigation_strategies |-> mitigation_strategies,
     confidence_metrics |-> confidence_metrics,
     metadata |-> [metadata EXCEPT !.processing_time_ms = n]]

\* ForecastResult: forecast_id and generated_at come from the default
\* factories (uuid4 and datetime.utcnow), the rest from the caller.  The
\* clock's time of day moves on between two constructions; the instant of
\* the n-th is named n.
ForecastResult(clock, n, timeframe, critical_alerts, procurement_recommendations, operation_impact_assessment, mitigation_strategies, confidence_metrics, metadata) ==
    [forecast_id |-> NewForecastId(clock, n),
     generated_at |-> [day |-> clock, instant |-> n],
     timeframe |-> timeframe,
     critical_alerts |-> critical_alerts,
     procurement_recommendations |-> procurement_recommendations,
     operation_impact_assessment |-> operation_impact_assessment,
     mitigation_strategies |-> mitigation_strategies,
     confidence_metrics |-> confidence_metrics,
     metadata |-> metadata]

----------------------------------------------------------------------------
\* backend/services/forecasting_engine.py: the fallback path.

\* trend_decline = -0.5 per month, in tenths of a percent.
trend_decline == -5
\* margin = 5.0, in tenths of a percent.
margin == 50
\* The horizons of the fallback loop.
FallbackDays == <<30, 60, 90>>

\* The projection without its lower bound.
ProjectedReadinessUnbounded(current_readiness, days) ==
    current_readiness + trend_decline * (days \div 30)

\* projected_readiness = max(0, current_readiness + trend_decline * months).
ProjectedReadiness(current_readiness, days) ==
    Max(0, current_readiness + trend_decline * (days \div 30))

\* The chain with its comparisons made inclusive.
FallbackRiskLevelInclusive(projected_readiness) ==
    IF projected_readiness <= Pct(50) THEN "critical"
    ELSE IF projected_readiness <= Pct(65) THEN "high"
    ELSE IF projected_readiness <= Pct(80) THEN "medium"
    ELSE "low"

\* The risk level chosen by the if/elif chain.
FallbackRiskLevel(projected_readiness) ==
    IF projected_readiness < Pct(50) THEN "critical"
    ELSE IF projected_readiness < Pct(65) THEN "high"
    ELSE IF projected_readiness < Pct(80) THEN "medium"
    ELSE "low"

\* One turn of the loop `for days in [30, 60, 90]`.
FallbackProjection(current_readiness, days) ==
    LET projected_readiness == ProjectedReadiness(current_readiness, days)
    IN  ReadinessProjection(
            days,
            projected_readiness,
            << Max(0, projected_readiness - margin),
               Min(Pct(100), projected_readiness + margin) >>,
            FallbackRiskLevel(projected_readiness))

\* The fallback path's tag, had it been copied from the candidate path.
FallbackTagMislabelled == "ai_service"

\* The `generated_as` tag of the fallback path.
FallbackTag == "fallback_rule_based"

\* _generate_fallback_forecast(input_data), called when the clock reads
\* `clock`; n is the uuid4 draw of the result's forecast_id.
_generate_fallback_forecast(input, clock, n) ==
    LET current_readiness == input.current_readiness
        projections == [i \in 1..Len(FallbackDays) |->
                           FallbackProjection(current_readiness, FallbackDays[i])]
        critical_alerts ==
            IF \E i \in 1..Len(projections) : projections[i].readiness < Pct(70)
            THEN << [category |-> "General Ordnance",
                     expected_shortage_date |-> clock + 45,
                     severity |-> "medium",
                     impacted_operations |-> <<"Standard Operations">>,
                     \* int(current_readiness): whole percents, truncated
                     current_stock_level |-> current_readiness \div 10,
                     projected_need |-> 80] >>
            ELSE << >>
        procurement_recommendations ==
            IF current_readiness < Pct(80)
            THEN << [priority |-> "high",
                     category |-> "Critical Ordnance",
                     recommended_quantity |-> 100,
                     deadline |-> clock + 30,
                     rationale |-> "Fallback recommendation to maintain readiness above 80%",
                     supplier_lead_time |-> 30] >>
            ELSE << >>
        mitigation_strategies ==
            << [strategy |-> "Inventory Optimization",
                effectiveness |-> 70,
                implementation_time |-> 14,
                impact |-> "Improve readiness by 5-10%",
                items_affected |-> <<"All Categories">>] >>
    IN  ForecastResult(
            clock, n,
            [current_readiness |-> current_readiness, projections |-> projections],
            critical_alerts,
            procurement_recommendations,
            << >>,
            mitigation_strategies,
            ConfidenceMetrics(70, 65, "medium"),
            [generated_as |-> FallbackTag, ai_model |-> "none",
             processing_time_ms |-> 0, data_quality |-> "limited"])

----------------------------------------------------------------------------
\* backend/services/forecasting_engine.py: the external candidate.

\* The exception, if any, that building one ReadinessProjection from
\* proj_data raises: proj_data.get on a value that is no dict is an
\* AttributeError; RiskLevel(<not a member>) is a ValueError; a days or
\* readiness that is no number fails pydantic's validation, and
\* pydantic's ValidationError is a ValueError.
ProjectionError(proj_data) ==
    IF ~IsDict(proj_data) THEN "AttributeError"
    ELSE IF Get(proj_data, "risk_level", "medium") \notin RiskLevel THEN "ValueError"
    ELSE IF "days" \in DOMAIN proj_data /\ proj_data.days.k # "num" THEN "ValueError"
    ELSE IF "readiness" \in DOMAIN proj_data /\ proj_data.readiness.k # "num"
         THEN "ValueError"
    ELSE "none"

\* The ReadinessProjection built from proj_data when nothing is raised:
\* each field is taken as given, with the defaults of the .get calls.
ParseProjection(proj_data, input) ==
    ReadinessProjection(
        Get(proj_data, "days", Num(30)).n,
        Get(proj_data, "readiness", Num(input.current_readiness)).n,
        Get(proj_data, "confidence_interval", <<Pct(70), Pct(90)>>),
        Get(proj_data, "risk_level", "medium"))

\* The exception of building one CriticalAlert: AlertSeverity(<not a member>).
AlertError(alert_data) ==
    IF Get(alert_data, "severity", "medium") \notin AlertSeverity
    THEN "ValueError" ELSE "none"

ParseAlert(alert_data, clock) ==
    [category |-> Get(alert_data, "category", "Unknown"),
     expected_shortage_date |-> Get(alert_data, "expected_shortage_date", clock + 30),
     severity |-> Get(alert_data, "severity", "medium"),
     impacted_operations |-> Get(alert_data, "impacted_operations", << >>),
     current_stock_level |-> Get(alert_data, "current_stock_level", 0),
     projected_need |-> Get(alert_data, "projected_need", 0)]

ParseRecommendation(rec_data, clock) ==
    [priority |-> Get(rec_data, "priority", "medium"),
     category |-> Get(rec_data, "category", "Unknown"),
     recommended_quantity |-> Get(rec_data, "recommended_quantity", 0),
     deadline |-> Get(rec_data, "deadline", clock + 60),
     rationale |-> Get(rec_data, "rationale", "AI recommendation"),
     supplier_lead_time |-> Get(rec_data, "supplier_lead_time", 30)]

ParseImpact(op_data) ==
    [exercise_name |-> Get(op_data, "exercise_name", "Unknown Exercise"),
     readiness_impact |-> Get(op_data, "readiness_impact", 0),
     critical_items_affected |-> Get(op_data, "critical_items_affected", << >>),
     recommendations |-> Get(op_data, "recommendations", << >>)]

\* effectiveness is in hundredths.
ParseMitigation(mit_data) ==
    [strategy |-> Get(mit_data, "strategy", "Unknown Strategy"),
     effectiveness |-> Get(mit_data, "effectiveness", 50),
     implementation_time |-> Get(mit_data, "implementation_time", 7),
     impact |-> Get(mit_data, "impact", "Unknown impact"),
     items_affected |-> Get(mit_data, "items_affected", << >>)]

\* The exception raised by the first element of a list whose construction
\* raises, "none" when none does; errors[i] is the i-th element's exception.
FirstError(errors) ==
    LET bad == {i \in 1..Len(errors) : errors[i] # "none"}
    IN  IF bad = {} THEN "none" ELSE errors[SetMin(bad)]

\* The `generated_as` tag of the candidate path.
CandidateTag == "ai_service"

\* _validate_and_parse_response(forecast_data, input_data): the exception
\* it raises ("none": it returns) and the ForecastResult it returns.
_validate_and_parse_response(forecast_data, input, clock, n) ==
    LET isdict == IsDict(forecast_data)
        timeframe_data == IF isdict THEN Get(forecast_data, "timeframe", EmptyDict)
                          ELSE EmptyDict
        proj_list == IF IsDict(timeframe_data)
                     THEN Get(timeframe_data, "projections", << >>) ELSE << >>
        alert_list == IF isdict THEN Get(forecast_data, "critical_alerts", << >>)
                      ELSE << >>
        rec_list == IF isdict
                    THEN Get(forecast_data, "procurement_recommendations", << >>)
                    ELSE << >>
        op_list == IF isdict
                   THEN Get(forecast_data, "operation_impact_assessment", << >>)
                   ELSE << >>
        mit_list == IF isdict THEN Get(forecast_data, "mitigation_strategies", << >>)
                    ELSE << >>
        conf_data == IF isdict THEN Get(forecast_data, "confidence_metrics", EmptyDict)
                     ELSE EmptyDict
        proj_errors == [i \in 1..Len(proj_list) |-> ProjectionError(proj_list[i])]
        alert_errors == [i \in 1..Len(alert_list) |-> AlertError(alert_list[i])]
        exc == IF ~isdict \/ ~IsDict(timeframe_data) THEN "AttributeError"
               ELSE IF FirstError(proj_errors) # "none"
                    THEN FirstError(proj_errors)
               ELSE FirstError(alert_errors)
    IN  IF exc # "none" THEN [exc |-> exc, result |-> NoValue]
        ELSE [exc |-> "none",
              result |-> ForecastResult(
                  clock, n,
                  [current_readiness |-> input.current_readiness,
                   projections |-> [i \in 1..Len(proj_list) |->
                                       ParseProjection(proj_list[i], input)]],
                  [i \in 1..Len(alert_list) |-> ParseAlert(alert_list[i], clock)],
                  [i \in 1..Len(rec_list) |-> ParseRecommendation(rec_list[i], clock)],
                  [i \in 1..Len(op_list) |-> ParseImpact(op_list[i])],
                  [i \in 1..Len(mit_list) |-> ParseMitigation(mit_list[i])],
                  ConfidenceMetrics(
                      Get(conf_data, "model_accuracy", 85),
                      Get(conf_data, "data_quality_score", 80),
                      Get(conf_data, "forecast_reliability", "medium")),
                  [generated_as |-> CandidateTag, ai_model |-> "gpt-5",
                   processing_time_ms |-> 0, data_quality |-> "high"])]

\* _generate_ai_forecast(input_data) for an outcome `out` of
\* chat.send_message: the exception it lets through ("none": it returns),
\* the ForecastResult it returns and the return statement that produced it.
\* The inner handler catches json.JSONDecodeError and ValueError only.
_generate_ai_forecast(input, out, clock, n) ==
    IF out.kind = "raise"
    THEN [exc |-> "Exception", result |-> NoValue, path |-> "none"]
    ELSE IF out.kind = "text"
    THEN [exc |-> "none", result |-> _generate_fallback_forecast(input, clock, n),
          path |-> "fallback"]
    ELSE LET parsed == _validate_and_parse_response(out.data, input, clock, n)
         IN  IF parsed.exc = "none"
             THEN [exc |-> "none", result |-> parsed.result, path |-> "candidate"]
             ELSE IF parsed.exc = "ValueError"
             THEN [exc |-> "none",
                   result |-> _generate_fallback_forecast(input, clock, n),
                   path |-> "fallback"]
             ELSE [exc |-> parsed.exc, result |-> NoValue, path |-> "none"]

\* generate_forecast with a handler that catches ValueError only: any other
\* exception of _generate_ai_forecast reaches the caller.
generate_forecast_narrow_except(input, out, clock, n) ==
    LET ai == _generate_ai_forecast(input, out, clock, n)
    IN  IF ai.exc = "none"
        THEN [exc |-> "none", result |-> ai.result, path |-> ai.path]
        ELSE IF ai.exc = "ValueError"
        THEN [exc |-> "none",
              result |-> _generate_fallback_forecast(input, clock, n),
              path |-> "fallback"]
        ELSE [exc |-> ai.exc, result |-> NoValue, path |-> "none"]

\* ReadinessForecaster.generate_forecast(input_data): `except Exception`
\* around _generate_ai_forecast, falling back on anything it lets through.
generate_forecast(input, out, clock, n) ==
    LET ai == _generate_ai_forecast(input, out, clock, n)
    IN  IF ai.exc = "none"
        THEN [exc |-> "none", result |-> ai.result, path |-> ai.path]
        ELSE [exc |-> "none", result |-> _generate_fallback_forecast(input, clock, n),
              path |-> "fallback"]

----------------------------------------------------------------------------
\* The inputs and the external responses the model draws from.

\* The mock data the generate endpoint builds every input from
\* (_get_scheduled_exercises, _get_supply_chain_data).
MockExercises ==
    << [name |-> "Exercise Taming Sari", intensity |-> "high"],
       [name |-> "Coastal Defense Training", intensity |-> "medium"] >>
MockLeadTimes ==
    << [category |-> "Missile", average_lead_time |-> 45],
       [category |-> "Torpedo", average_lead_time |-> 60],
       [category |-> "Ammunition", average_lead_time |-> 30] >>

ForecastingInput(current_readiness) ==
    [current_readiness |-> current_readiness,
     scheduled_exercises |-> MockExercises,
     lead_times |-> MockLeadTimes]

\* current_readiness values, in tenths of a percent: 0.0, 0.3, 60.0, 70.5,
\* 75.0 (the endpoint's default), 86.7 (the endpoint's value for the mock
\* inventory) and 100.0.
ReadinessValues == {0, 3, 600, 705, 750, 867, 1000}

\* Entries of a candidate's "projections" list.
ProjData ==
    { \* an empty object: every default applies
      EmptyDict,
      \* well-formed entries for the three horizons
      [days |-> Num(30), readiness |-> Num(845),
       confidence_interval |-> <<795, 895>>, risk_level |-> "low"],
      [days |-> Num(60), readiness |-> Num(640),
       confidence_interval |-> <<600, 700>>, risk_level |-> "high"],
      [days |-> Num(90), readiness |-> Num(835),
       confidence_interval |-> <<785, 885>>],
      \* readiness above 100 and reversed interval bounds
      [days |-> Num(90), readiness |-> Num(1500),
       confidence_interval |-> <<900, 700>>, risk_level |-> "critical"],
      \* a risk level outside the enum
      [days |-> Num(30), readiness |-> Num(845),
       confidence_interval |-> <<795, 895>>, risk_level |-> "severe"],
      \* a readiness that is no number
      [days |-> Num(60), readiness |-> Str("n/a")],
      \* an entry that is no object
      Num(30) }

\* A well-formed projections list, for the candidates that vary elsewhere.
GoodProjections ==
    << [days |-> Num(30), readiness |-> Num(845),
        confidence_interval |-> <<795, 895>>, risk_level |-> "low"],
       [days |-> Num(60), readiness |-> Num(640),
        confidence_interval |-> <<600, 700>>, risk_level |-> "high"],
       [days |-> Num(90), readiness |-> Num(835),
        confidence_interval |-> <<785, 885>>] >>

\* A full candidate: every section present, one critical alert.
FullCandidate ==
    [timeframe |-> [current_readiness |-> Num(867), projections |-> GoodProjections],
     critical_alerts |->
        << [category |-> "Missile", expected_shortage_date |-> 20,
            severity |-> "high", current_stock_level |-> 40,
            projected_need |-> 90] >>,
     procurement_recommendations |->
        << [priority |-> "urgent", category |-> "Missile",
            recommended_quantity |-> 50, deadline |-> 15] >>,
     operation_impact_assessment |->
        << [exercise_name |-> "Exercise Taming Sari", readiness_impact |-> -30] >>,
     mitigation_strategies |-> << [strategy |-> "Expedite orders"] >>,
     confidence_metrics |-> [model_accuracy |-> 90]]

\* A response that is JSON: what json.loads returned.
JsonOutcome(forecast_data) == [kind |-> "json", data |-> forecast_data]

\* The candidate whose "timeframe" lists the projections ps and nothing else.
TimeframeCandidate(ps) == [timeframe |-> [projections |-> ps]]

\* What chat.send_message can do besides answering with a TimeframeCandidate:
\* raise (the service is unreachable, the key is rejected, ...), answer with
\* text that is no JSON, or answer with one of these JSON values.
OtherOutcomes ==
    { [kind |-> "raise", data |-> NoValue],
      [kind |-> "text", data |-> NoValue],
      \* no "timeframe" key
      JsonOutcome([critical_alerts |-> << >>]),
      \* a "timeframe" without "projections"
      JsonOutcome([timeframe |-> [current_readiness |-> Num(867)]]),
      \* a "timeframe" that is no object
      JsonOutcome([timeframe |-> Num(867)]),
      \* a response that is no object
      JsonOutcome(Num(867)),
      JsonOutcome(FullCandidate),
      \* an alert severity outside the enum
      JsonOutcome([timeframe |-> [projections |-> GoodProjections],
                   critical_alerts |->
                       << [category |-> "Missile", severity |-> "severe"] >>]) }

----------------------------------------------------------------------------
\* The engine alone: calls of ReadinessForecaster.generate_forecast.

EngineInit ==
    /\ now = 0
    /\ uuid_counter = 0
    /\ pc = "idle"
    /\ input_data = NoValue
    /\ llm = NoValue
    /\ ret = NoValue
    /\ calls = << >>
    /\ forecast_history = << >>
    /\ alert_history = << >>
    /\ background_tasks = {}
    /\ store_failed = {}
    /\ response = NoValue
    /\ heap = << >>
    /\ base_input = NoValue
    /\ base_before = NoValue
    /\ argument = NoValue
    /\ arg_before = NoValue
    /\ modified_input = NoValue
    /\ scenario = NoValue
    /\ chain = 0

\* A day passes.
Tick ==
    /\ pc = "idle"
    /\ now < MaxClock
    /\ now' = now + 1
    /\ UNCHANGED <<scenario_vars, uuid_counter, engine_vars, calls, route_vars>>

\* One call of generate_forecast, from its entry to its return.
CallGenerateForecast(input, out) ==
    /\ pc = "idle"
    /\ uuid_counter < MaxForecasts
    /\ ret' = generate_forecast(input, out, now, uuid_counter + 1)
    /\ uuid_counter' = uuid_counter + 1
    /\ input_data' = input
    /\ llm' = out
    /\ pc' = "done"
    /\ UNCHANGED <<scenario_vars, now, calls, route_vars>>

\* The caller takes the result; the engine keeps no state of the call.
ReturnForecast ==
    /\ pc = "done"
    /\ pc' = "idle"
    /\ input_data' = NoValue
    /\ llm' = NoValue
    /\ ret' = NoValue
    /\ UNCHANGED <<scenario_vars, now, uuid_counter, calls, route_vars>>

\* The call whose response is a candidate listing up to MaxProj projections.
\* (The guard stands before the quantifier so that it is decided once.)
CallWithTimeframeCandidate ==
    /\ pc = "idle"
    /\ \E c \in ReadinessValues, k \in 0..MaxProj :
           \E ps \in [1..k -> ProjData] :
               CallGenerateForecast(ForecastingInput(c),
                                    JsonOutcome(TimeframeCandidate(ps)))

\* The call with any other outcome of chat.send_message.
CallWithOtherOutcome ==
    /\ pc = "idle"
    /\ \E c \in ReadinessValues, out \in OtherOutcomes :
           CallGenerateForecast(ForecastingInput(c), out)

EngineNext ==
    \/ CallWithTimeframeCandidate
    \/ CallWithOtherOutcome
    \/ ReturnForecast
    \/ Tick

EngineSpec == EngineInit /\ [][EngineNext]_vars

----------------------------------------------------------------------------
\* The engine while the external service is down: every call of
\* generate_forecast ends without a candidate, and the caller keeps the
\* results.

\* current_readiness values of the calls without a candidate: those above,
\* 85.0, 69.8, and the values whose 30-day projection falls on a threshold
\* of the risk levels (50.5, 65.5, 80.5).
FallbackReadinessValues == ReadinessValues \cup {505, 655, 698, 805, 850}

\* The outcomes of chat.send_message that supply no candidate.
NoCandidateOutcomes ==
    { [kind |-> "raise", data |-> NoValue], [kind |-> "text", data |-> NoValue] }

\* One call of generate_forecast that gets no candidate; its input and
\* result are appended to `calls`.
CallWithoutCandidate ==
    /\ uuid_counter < MaxForecasts
    /\ \E c \in FallbackReadinessValues, out \in NoCandidateOutcomes :
           LET input == ForecastingInput(c)
               r == generate_forecast(input, out, now, uuid_counter + 1)
           IN  calls' = Append(calls, [input |-> input, day |-> now,
                                       result |-> r.result])
    /\ uuid_counter' = uuid_counter + 1
    /\ UNCHANGED <<scenario_vars, now, engine_vars, route_vars>>

FallbackNext ==
    \/ CallWithoutCandidate
    \/ Tick

FallbackSpec == EngineInit /\ [][FallbackNext]_vars

----------------------------------------------------------------------------
\* backend/routes/forecasting.py: the generate and get endpoints and the
\* background task that stores a forecast.  The database answers every read;
\* an insert may fail.

\* _get_current_inventory: the six mock snapshots, quantity 100 + 50 * i.
MockCategories ==
    <<"Missile", "Torpedo", "Ammunition", "Pyrotechnic", "Seamine", "Demolition">>
MockInventory ==
    [i \in 1..Len(MockCategories) |->
        [ordnance_category |-> MockCategories[i], quantity |-> 100 + (i - 1) * 50]]

\* targets.get(category, 100) of _calculate_current_readiness.
TargetQuantity(category) ==
    CASE category = "Missile" -> 100
      [] category = "Torpedo" -> 80
      [] category = "Ammunition" -> 1000
      [] category = "Pyrotechnic" -> 200
      [] category = "Seamine" -> 60
      [] category = "Demolition" -> 50
      [] OTHER -> 100

\* The sum of f[i] over i in 1..n.
RECURSIVE SumTo(_, _)
SumTo(f, n) == IF n = 0 THEN 0 ELSE f[n] + SumTo(f, n - 1)

\* _calculate_current_readiness(inventory_data), for an inventory with one
\* snapshot per category: the mean of min(100, quantity / target * 100),
\* rounded to one decimal; 75.0 without inventory.  In tenths of a percent.
_calculate_current_readiness(inventory_data) ==
    IF Len(inventory_data) = 0 THEN Pct(75)
    ELSE LET category_readiness ==
                 [i \in 1..Len(inventory_data) |->
                     Min(Pct(100),
                         (inventory_data[i].quantity * Pct(100))
                             \div TargetQuantity(inventory_data[i].ordnance_category))]
             readiness_sum == SumTo(category_readiness, Len(inventory_data))
             n == Len(inventory_data)
         IN  (2 * readiness_sum + n) \div (2 * n)

\* _generate_basic_scenarios: the names of the three summaries.
BasicScenarios ==
    <<"Increased Exercise Tempo", "Supply Chain Disruption", "Budget Constraints">>

\* forecast_result.metadata['scenarios'] = scenarios.
WithScenarios(forecast) ==
    [forecast EXCEPT !.metadata =
        [generated_as |-> forecast.metadata.generated_as,
         ai_model |-> forecast.metadata.ai_model,
         processing_time_ms |-> forecast.metadata.processing_time_ms,
         data_quality |-> forecast.metadata.data_quality,
         scenarios |-> BasicScenarios]]

\* ForecastHistory(forecast_id, generated_at, input_parameters, result).dict():
\* the document of db.forecast_history; accuracy_score starts as None.
ForecastHistory(forecast, input) ==
    [forecast_id |-> forecast.forecast_id,
     generated_at |-> forecast.generated_at,
     input_parameters |-> input,
     result |-> forecast,
     accuracy_score |-> NoValue,
     actual_vs_predicted |-> NoValue,
     created_by |-> "system",
     model_version |-> "1.0"]

\* AlertHistory(forecast_id, category, severity, predicted_date).dict(): the
\* document of db.alert_history for the i-th alert of the forecast.
AlertHistory(forecast, i) ==
    [alert_id |-> [forecast_id |-> forecast.forecast_id, index |-> i],
     forecast_id |-> forecast.forecast_id,
     category |-> forecast.critical_alerts[i].category,
     severity |-> forecast.critical_alerts[i].severity,
     predicted_date |-> forecast.critical_alerts[i].expected_shortage_date,
     status |-> "active"]

\* find_one with the filter left out: the first document of the collection.
FindOneIgnoringFilter(collection, forecast_id) ==
    IF Len(collection) = 0 THEN NoValue ELSE collection[1]

\* db.forecast_history.find_one({"forecast_id": forecast_id}): the first
\* document with that forecast_id, NoValue (None) when there is none.
FindOne(collection, forecast_id) ==
    LET hits == {i \in 1..Len(collection) : collection[i].forecast_id = forecast_id}
    IN  IF hits = {} THEN NoValue ELSE collection[SetMin(hits)]

\* What chat.send_message does in the calls the endpoint makes.
RouteOutcomes ==
    { [kind |-> "raise", data |-> NoValue], JsonOutcome(FullCandidate) }

\* POST /api/forecasts/generate.  The handler builds the input from the mock
\* data, calls the engine, queues the store task, adds the scenario
\* summaries when asked to, and answers with the forecast; anything raised
\* on the way is answered with 500.
generate_forecast_endpoint(out, include_scenarios) ==
    /\ uuid_counter < MaxForecasts
    /\ LET current_readiness == _calculate_current_readiness(MockInventory)
           forecasting_input == ForecastingInput(current_readiness)
           r == generate_forecast(forecasting_input, out, now, uuid_counter + 1)
           forecast_result == IF include_scenarios THEN WithScenarios(r.result)
                              ELSE r.result
       IN  IF r.exc = "none"
           THEN /\ background_tasks' = background_tasks \cup
                       {[forecast |-> forecast_result, input_data |-> forecasting_input]}
                /\ response' = [op |-> "generate", status |-> 200,
                                forecast_id |-> forecast_result.forecast_id,
                                body |-> forecast_result]
           ELSE /\ background_tasks' = background_tasks
                /\ response' = [op |-> "generate", status |-> 500,
                                forecast_id |-> NoForecastId, body |-> NoValue]
    /\ uuid_counter' = uuid_counter + 1
    /\ UNCHANGED <<scenario_vars, now, engine_vars, calls, forecast_history, alert_history,
                   store_failed>>

\* A task that inserts the alert documents before the history document.
StoringAlertsFirst(task, inserted) ==
    /\ task \in background_tasks
    /\ inserted \in 0..(1 + Len(task.forecast.critical_alerts))
    /\ background_tasks' = background_tasks \ {task}
    /\ alert_history' =
           alert_history \o [i \in 1..Min(inserted, Len(task.forecast.critical_alerts)) |->
                                AlertHistory(task.forecast, i)]
    /\ forecast_history' =
           IF inserted = 1 + Len(task.forecast.critical_alerts)
           THEN Append(forecast_history, ForecastHistory(task.forecast, task.input_data))
           ELSE forecast_history
    /\ store_failed' =
           IF inserted < 1 + Len(task.forecast.critical_alerts)
           THEN store_failed \cup {task.forecast.forecast_id}
           ELSE store_failed
    /\ UNCHANGED <<scenario_vars, now, uuid_counter, engine_vars, calls, response>>

\* The background task _store_forecast_history(db, forecast, input_data):
\* insert the history document, then one alert document per critical alert.
\* `inserted` is the number of inserts the database accepts before one
\* fails; the task stops at the failure, logs it and raises nothing.
_store_forecast_history(task, inserted) ==
    /\ task \in background_tasks
    /\ inserted \in 0..(1 + Len(task.forecast.critical_alerts))
    /\ background_tasks' = background_tasks \ {task}
    /\ forecast_history' =
           IF inserted >= 1
           THEN Append(forecast_history, ForecastHistory(task.forecast, task.input_data))
           ELSE forecast_history
    /\ alert_history' =
           alert_history \o [i \in 1..Max(inserted - 1, 0) |->
                                AlertHistory(task.forecast, i)]
    /\ store_failed' =
           IF inserted < 1 + Len(task.forecast.critical_alerts)
           THEN store_failed \cup {task.forecast.forecast_id}
           ELSE store_failed
    /\ UNCHANGED <<scenario_vars, now, uuid_counter, engine_vars, calls, response>>

\* The status get_forecast answers with.  The HTTPException(404) is raised
\* inside the try block, and HTTPException is an Exception: the handler's
\* own `except Exception` catches it and raises HTTPException(500).
GetForecastStatus(forecast_doc) ==
    IF forecast_doc = NoValue THEN 500 ELSE 200

\* GET /api/forecasts/{forecast_id}.
get_forecast(forecast_id) ==
    /\ LET forecast_doc == FindOne(forecast_history, forecast_id)
       IN  response' = [op |-> "get",
                        status |-> GetForecastStatus(forecast_doc),
                        forecast_id |-> forecast_id,
                        body |-> IF forecast_doc = NoValue THEN NoValue
                                 ELSE forecast_doc.result]
    /\ UNCHANGED <<scenario_vars, now, uuid_counter, engine_vars, calls, forecast_history,
                   alert_history, background_tasks, store_failed>>

\* The forecast ids a client may ask for: every id the service can issue,
\* and ids it never issues (uuid 0).
RequestIds == {NewForecastId(d, n) : d \in 0..MaxClock, n \in 0..MaxForecasts}

Init == EngineInit

Next ==
    \/ \E out \in RouteOutcomes, include_scenarios \in BOOLEAN :
           generate_forecast_endpoint(out, include_scenarios)
    \/ \E task \in background_tasks :
           \E inserted \in 0..(1 + Len(task.forecast.critical_alerts)) :
               _store_forecast_history(task, inserted)
    \/ \E forecast_id \in RequestIds : get_forecast(forecast_id)

Spec == Init /\ [][Next]_vars

\* Starlette runs the background tasks of a response once it is sent: a
\* queued store task is eventually run.
FairSpec ==
    Spec /\ WF_vars(\E task \in background_tasks :
                        \E inserted \in 0..(1 + Len(task.forecast.critical_alerts)) :
                            _store_forecast_history(task, inserted))

----------------------------------------------------------------------------
\* Properties of the engine (EngineSpec, FallbackSpec).

\* The projections of the result of the call that has just returned.
Projections == ret.result.timeframe.projections

\* The "projections" list of the response of the call, << >> when the
\* response carries none.
CandidateProjections ==
    IF llm.kind = "json" /\ IsDict(llm.data) /\ "timeframe" \in DOMAIN llm.data
       /\ IsDict(llm.data.timeframe) /\ "projections" \in DOMAIN llm.data.timeframe
    THEN llm.data.timeframe.projections
    ELSE << >>

\* The "critical_alerts" list of the response of the call.
CandidateAlerts ==
    IF llm.kind = "json" /\ IsDict(llm.data) /\ "critical_alerts" \in DOMAIN llm.data
    THEN llm.data.critical_alerts
    ELSE << >>

\* The response is JSON with a value of the wrong type: it is no object, its
\* timeframe is no object, a projection is no object or has a days or
\* readiness that is no number.
HasWrongType ==
    /\ llm.kind = "json"
    /\ \/ ~IsDict(llm.data)
       \/ "timeframe" \in DOMAIN llm.data /\ ~IsDict(llm.data.timeframe)
       \/ \E i \in 1..Len(CandidateProjections) :
              LET p == CandidateProjections[i]
              IN  \/ ~IsDict(p)
                  \/ IsDict(p) /\ "days" \in DOMAIN p /\ p.days.k # "num"
                  \/ IsDict(p) /\ "readiness" \in DOMAIN p /\ p.readiness.k # "num"

\* The response is JSON with a risk level or a severity outside its enum.
HasInvalidEnum ==
    /\ llm.kind = "json"
    /\ \/ \E i \in 1..Len(CandidateProjections) :
              LET p == CandidateProjections[i]
              IN  IsDict(p) /\ "risk_level" \in DOMAIN p
                  /\ p.risk_level \notin {"low", "medium", "high", "critical"}
       \/ \E i \in 1..Len(CandidateAlerts) :
              LET a == CandidateAlerts[i]
              IN  "severity" \in DOMAIN a
                  /\ a.severity \notin {"low", "medium", "high", "critical"}

\* A ForecastResult with every field of the model, each of its kind.
StructurallyValid(r) ==
    /\ DOMAIN r = {"forecast_id", "generated_at", "timeframe", "critical_alerts",
                   "procurement_recommendations", "operation_impact_assessment",
                   "mitigation_strategies", "confidence_metrics", "metadata"}
    /\ DOMAIN r.timeframe = {"current_readiness", "projections"}
    /\ \A i \in 1..Len(r.timeframe.projections) :
           LET p == r.timeframe.projections[i]
           IN  /\ DOMAIN p = {"days", "readiness", "confidence_interval", "risk_level"}
               /\ p.days \in Int
               /\ p.readiness \in Int
               /\ Len(p.confidence_interval) = 2
               /\ p.risk_level \in {"low", "medium", "high", "critical"}
    /\ \A i \in 1..Len(r.critical_alerts) :
           r.critical_alerts[i].severity \in {"low", "medium", "high", "critical"}
    /\ DOMAIN r.confidence_metrics =
           {"model_accuracy", "data_quality_score", "forecast_reliability"}
    /\ "generated_as" \in DOMAIN r.metadata

\* C1 (as claimed): in every result generate_forecast returns, from a parsed
\* candidate or from the fallback, each projection's readiness lies within
\* its own confidence interval and within [0, 100].
C1_ReadinessWithinIntervalAndRange ==
    pc = "done" =>
        \A i \in 1..Len(Projections) :
            LET p == Projections[i]
            IN  /\ p.confidence_interval[1] <= p.readiness
                /\ p.readiness <= p.confidence_interval[2]
                /\ 0 <= p.readiness
                /\ p.readiness <= Pct(100)

\* C2: whatever goes wrong in the candidate step (the service call raises,
\* the response is no JSON, the JSON has a wrong type or an invalid enum
\* value), generate_forecast raises nothing and returns a structurally valid
\* ForecastResult, the one the fallback path computes.
C2_NeverSurfacesAnError ==
    pc = "done" =>
        /\ ret.exc = "none"
        /\ StructurallyValid(ret.result)
        /\ (llm.kind \in {"raise", "text"} \/ HasWrongType \/ HasInvalidEnum) =>
               /\ ret.path = "fallback"
               /\ ret.result.metadata.generated_as = "fallback_rule_based"
               /\ Len(Projections) = 3
               /\ \A i \in 1..3 :
                      Projections[i].readiness =
                          Max(0, input_data.current_readiness - 5 * i)

\* C2's case: a response whose projections hold an entry that is no object
\* (an AttributeError, which only the outer handler catches) was answered
\* by the fallback.
C2_Witness ==
    /\ pc = "done"
    /\ llm.kind = "json"
    /\ IsDict(llm.data)
    /\ \E i \in 1..Len(CandidateProjections) : ~IsDict(CandidateProjections[i])
    /\ ret.exc = "none"
    /\ ret.path = "fallback"

\* The response is a JSON object that lacks "timeframe", or whose timeframe
\* lacks "projections".
LacksRequiredKeys ==
    /\ llm.kind = "json"
    /\ IsDict(llm.data)
    /\ \/ "timeframe" \notin DOMAIN llm.data
       \/ /\ "timeframe" \in DOMAIN llm.data
          /\ IsDict(llm.data.timeframe)
          /\ "projections" \notin DOMAIN llm.data.timeframe

\* C3 (as claimed): a candidate that parses as JSON but lacks the required
\* keys is treated as malformed, and the result is the fallback's.
C3_MissingKeysFallBack ==
    (pc = "done" /\ LacksRequiredKeys) =>
        /\ ret.path = "fallback"
        /\ ret.result.metadata.generated_as = "fallback_rule_based"
        /\ Len(Projections) = 3

\* C5 (as claimed): every result holds exactly three projections, for the
\* horizons 30, 60 and 90 days.
C5_ExactlyThreeProjections ==
    pc = "done" =>
        /\ Len(Projections) = 3
        /\ Projections[1].days = 30
        /\ Projections[2].days = 60
        /\ Projections[3].days = 90

\* C6 (as claimed): in every result the projections are in strictly
\* ascending order of their horizon.
C6_ProjectionsAscending ==
    pc = "done" =>
        \A i, j \in 1..Len(Projections) :
            i < j => Projections[i].days < Projections[j].days

\* C7 (as claimed): a candidate projection whose risk_level is absent or is
\* outside the enum is accepted with risk_level "medium", and the candidate
\* stays the source of the result.
C7_RiskLevelCoerced ==
    (/\ pc = "done"
     /\ llm.kind = "json"
     /\ ~HasWrongType
     /\ CandidateAlerts = << >>
     /\ CandidateProjections # << >>) =>
        /\ ret.path = "candidate"
        /\ Len(Projections) = Len(CandidateProjections)
        /\ \A i \in 1..Len(CandidateProjections) :
               LET p == CandidateProjections[i]
               IN  ("risk_level" \notin DOMAIN p
                    \/ p.risk_level \notin {"low", "medium", "high", "critical"})
                       => Projections[i].risk_level = "medium"

\* C8: the provenance tag names the path that produced the result:
\* "ai_service" exactly when the result is the one built from the candidate,
\* "fallback_rule_based" exactly when the fallback computed it, which is the
\* case whenever the candidate step failed.
C8_ProvenanceNamesThePath ==
    pc = "done" =>
        /\ ret.result.metadata.generated_as = "ai_service"
               <=> ret.path = "candidate"
        /\ ret.result.metadata.generated_as = "fallback_rule_based"
               <=> ret.path = "fallback"
        /\ ret.path \in {"candidate", "fallback"}
        /\ ret.path = "candidate" =>
               /\ llm.kind = "json"
               /\ ~HasWrongType
               /\ ~HasInvalidEnum
               /\ Len(Projections) = Len(CandidateProjections)
        /\ (llm.kind # "json" \/ HasWrongType \/ HasInvalidEnum) =>
               ret.path = "fallback"

\* C8's cases: a result built from a candidate, and a result the fallback
\* computed after a supplied candidate failed validation.
C8_Witness ==
    /\ pc = "done"
    /\ llm.kind = "json"
    /\ HasInvalidEnum
    /\ ret.result.metadata.generated_as = "fallback_rule_based"
    /\ uuid_counter = 2

\* A result without the fields that the clock and uuid4 decide: forecast_id,
\* generated_at, and the dates of the alerts and recommendations.
WithoutDate(rec, date_field) == [f \in DOMAIN rec \ {date_field} |-> rec[f]]
ResultBody(r) ==
    [timeframe |-> r.timeframe,
     critical_alerts |-> [i \in 1..Len(r.critical_alerts) |->
                             WithoutDate(r.critical_alerts[i], "expected_shortage_date")],
     procurement_recommendations |->
         [i \in 1..Len(r.procurement_recommendations) |->
             WithoutDate(r.procurement_recommendations[i], "deadline")],
     operation_impact_assessment |-> r.operation_impact_assessment,
     mitigation_strategies |-> r.mitigation_strategies,
     confidence_metrics |-> r.confidence_metrics,
     metadata |-> r.metadata]

----------------------------------------------------------------------------
\* Properties of the endpoints (Spec, FairSpec).

\* forecast_history holds a record of the forecast.
Stored(forecast_id) ==
    \E i \in 1..Len(forecast_history) :
        forecast_history[i].forecast_id = forecast_id

\* The generate endpoint has returned the forecast and its store task is
\* queued.
StorePending(forecast_id) ==
    \E task \in background_tasks : task.forecast.forecast_id = forecast_id

\* C9 (as claimed): a request for a forecast_id without a record in
\* forecast_history is answered with 404.  (forecast_history only grows: an
\* id without a record now had none when the request was answered.)
C9_UnknownForecastIs404 ==
    (response # NoValue /\ response.op = "get"
     /\ ~Stored(response.forecast_id)) => response.status = 404

\* C10: once the generate endpoint has returned forecast F, the background
\* task eventually stores a record of F unless the store fails; a stored
\* record stays; and every get_forecast(F) answered while the record is
\* there returns, with status 200, a forecast whose forecast_id is F.
C10_StoredThenRetrievable ==
    /\ \A f \in RequestIds :
           StorePending(f) ~> (Stored(f) \/ f \in store_failed)
    /\ [][\A f \in RequestIds : Stored(f) => Stored(f)']_vars
    /\ [][\A f \in RequestIds :
              (Stored(f) /\ get_forecast(f)) =>
                  /\ response'.status = 200
                  /\ response'.body.forecast_id = f]_vars

\* C10's case: two forecasts were generated and stored, and a get of the
\* one stored second returned it.
C10_Witness ==
    /\ Len(forecast_history) = 2
    /\ background_tasks = {}
    /\ store_failed = {}
    /\ response.op = "get"
    /\ response.forecast_id = forecast_history[2].forecast_id
    /\ response.forecast_id # forecast_history[1].forecast_id
    /\ response.status = 200
    /\ response.body.forecast_id = response.forecast_id

----------------------------------------------------------------------------
\* backend/routes/forecasting.py: the scenario transformer
\* _apply_scenario_parameters, as analyze_scenarios uses it.
\*
\* The transformer changes attributes of objects in place, so objects have
\* identity here: the ExerciseEvent and SupplyChainData objects live in
\* `heap`, and a ForecastingInput object lists the addresses of its own.
\* Factors such as 1.0 and 1.5 are kept in tenths (10, 15).

\* Longest list of scheduled exercises of a base input.
MaxExercises == 2
\* Longest run of applications of one scenario to its own output.
MaxApplications == 3

IntensityLevel == {"low", "medium", "high", "critical"}

\* ScenarioParameters with every default of the model class.
DefaultScenarioParameters ==
    [exercise_intensity_multiplier |-> 10,
     additional_events |-> 0,
     lead_time_increase_days |-> 0,
     supplier_reliability_factor |-> 10,
     budget_constraint_percentage |-> 1000,
     weather_impact_factor |-> 10,
     geopolitical_tension_level |-> "normal"]

\* The scenarios a request carries.
Scenarios ==
    { DefaultScenarioParameters,
      [DefaultScenarioParameters EXCEPT !.exercise_intensity_multiplier = 15],
      [DefaultScenarioParameters EXCEPT !.exercise_intensity_multiplier = 5],
      [DefaultScenarioParameters EXCEPT !.lead_time_increase_days = 7],
      [DefaultScenarioParameters EXCEPT !.lead_time_increase_days = -3],
      [DefaultScenarioParameters EXCEPT !.exercise_intensity_multiplier = 15,
                                        !.lead_time_increase_days = 7],
      [DefaultScenarioParameters EXCEPT !.supplier_reliability_factor = 8,
                                        !.budget_constraint_percentage = 800,
                                        !.weather_impact_factor = 13,
                                        !.geopolitical_tension_level = "high",
                                        !.additional_events = 2],
      [DefaultScenarioParameters EXCEPT !.additional_events = 2,
                                        !.lead_time_increase_days = 7] }

\* base_input.dict(): the nested objects are read off the heap into a dict of
\* plain values.
InputDict(h, input) ==
    [current_readiness |-> input.current_readiness,
     scheduled_exercises |->
         [i \in 1..Len(input.scheduled_exercises) |-> h[input.scheduled_exercises[i]]],
     lead_times |->
         [i \in 1..Len(input.lead_times) |-> h[input.lead_times[i]]]]

\* A constructor that keeps the nested lists of its argument: the new input
\* shares the exercise and supply objects of the old one.
SharingConstructor(h, input) ==
    [heap |-> h, input |-> input]

\* ForecastingInput(**base_input.dict()): every nested dict is validated
\* into a new object of its own; the new input lists the new addresses.
CopyConstructor(h, input) ==
    LET d == InputDict(h, input)
        ne == Len(d.scheduled_exercises)
        nl == Len(d.lead_times)
        exercises == [i \in 1..ne |->
                         [name |-> d.scheduled_exercises[i].name,
                          intensity |-> d.scheduled_exercises[i].intensity]]
        supplies == [i \in 1..nl |->
                        [category |-> d.lead_times[i].category,
                         average_lead_time |-> d.lead_times[i].average_lead_time]]
    IN  [heap |-> h \o exercises \o supplies,
         input |-> [current_readiness |-> d.current_readiness,
                    scheduled_exercises |-> [i \in 1..ne |-> Len(h) + i],
                    lead_times |-> [i \in 1..nl |-> Len(h) + ne + i]]]

\* The intensity the first loop leaves an exercise with.
NewIntensity(intensity) ==
    IF intensity = "medium" THEN "high"
    ELSE IF intensity = "low" THEN "medium"
    ELSE intensity

\* Whether an address is among those a list holds.
Holds(addresses, a) == \E i \in 1..Len(addresses) : addresses[i] = a

\* A guard that takes every positive multiplier for a change of tempo.
EscalatesAtAnyMultiplier(sc) == sc.exercise_intensity_multiplier > 0

\* A guard that also takes geopolitical tension for a change of tempo.
EscalatesOnTension(sc) ==
    sc.exercise_intensity_multiplier # 10 \/ sc.geopolitical_tension_level # "normal"

\* The guard of the first loop: scenario.exercise_intensity_multiplier != 1.0.
EscalatesExercises(sc) == sc.exercise_intensity_multiplier # 10

\* The guard of the second loop: scenario.lead_time_increase_days > 0.
IncreasesLeadTimes(sc) == sc.lead_time_increase_days > 0

\* An assignment in place of the increment.
ReplacedLeadTime(lead_time, days) == days

\* supply_data.average_lead_time += scenario.lead_time_increase_days.
IncreasedLeadTime(lead_time, days) == lead_time + days

\* A transformer that also lowers current_readiness by 5.0 under a budget
\* constraint below 100 percent.
ApplyingBudgetConstraint(h, input, sc) ==
    LET copy == CopyConstructor(h, input)
        modified == IF sc.budget_constraint_percentage < 1000
                    THEN [copy.input EXCEPT !.current_readiness = Max(0, @ - 50)]
                    ELSE copy.input
        h1 == [a \in 1..Len(copy.heap) |->
                  IF EscalatesExercises(sc) /\ Holds(modified.scheduled_exercises, a)
                  THEN [copy.heap[a] EXCEPT !.intensity = NewIntensity(@)]
                  ELSE copy.heap[a]]
        h2 == [a \in 1..Len(h1) |->
                  IF IncreasesLeadTimes(sc) /\ Holds(modified.lead_times, a)
                  THEN [h1[a] EXCEPT !.average_lead_time =
                            IncreasedLeadTime(@, sc.lead_time_increase_days)]
                  ELSE h1[a]]
    IN  [heap |-> h2, input |-> modified]

\* _apply_scenario_parameters(base_input, scenario): the heap after the call
\* and the input returned.
_apply_scenario_parameters(h, input, sc) ==
    LET copy == CopyConstructor(h, input)
        modified == copy.input
        h1 == [a \in 1..Len(copy.heap) |->
                  IF EscalatesExercises(sc) /\ Holds(modified.scheduled_exercises, a)
                  THEN [copy.heap[a] EXCEPT !.intensity = NewIntensity(@)]
                  ELSE copy.heap[a]]
        h2 == [a \in 1..Len(h1) |->
                  IF IncreasesLeadTimes(sc) /\ Holds(modified.lead_times, a)
                  THEN [h1[a] EXCEPT !.average_lead_time =
                            IncreasedLeadTime(@, sc.lead_time_increase_days)]
                  ELSE h1[a]]
    IN  [heap |-> h2, input |-> modified]

\* The exercises of the base inputs: a name each, any intensity.
ExerciseNames == <<"Exercise Taming Sari", "Coastal Defense Training", "Patrol">>
BaseLeadTimes == {<< >>, MockLeadTimes}

\* A base input is loaded: analyze_scenarios builds base_input from the
\* stored input_parameters, its objects being the first on the heap.
ScenarioInit ==
    /\ now = 0
    /\ uuid_counter = 0
    /\ pc = "idle"
    /\ input_data = NoValue
    /\ llm = NoValue
    /\ ret = NoValue
    /\ calls = << >>
    /\ forecast_history = << >>
    /\ alert_history = << >>
    /\ background_tasks = {}
    /\ store_failed = {}
    /\ response = NoValue
    /\ \E ne \in 0..MaxExercises :
         \E intensities \in [1..ne -> IntensityLevel] :
           \E supplies \in BaseLeadTimes :
             /\ heap = [i \in 1..ne |-> [name |-> ExerciseNames[((i - 1) % 3) + 1],
                                         intensity |-> intensities[i]]]
                       \o supplies
             /\ base_input = [current_readiness |-> 867,
                              scheduled_exercises |-> [i \in 1..ne |-> i],
                              lead_times |-> [i \in 1..Len(supplies) |-> ne + i]]
    /\ base_before = InputDict(heap, base_input)
    /\ argument = NoValue
    /\ arg_before = NoValue
    /\ modified_input = NoValue
    /\ scenario = NoValue
    /\ chain = 0

\* The addresses of the objects of an input.
OwnAddresses(input) ==
    {input.scheduled_exercises[i] : i \in 1..Len(input.scheduled_exercises)}
        \cup {input.lead_times[i] : i \in 1..Len(input.lead_times)}

\* One round of analyze_scenarios' loop: the scenario is applied to
\* base_input.  The input the round before produced is no longer referenced;
\* its objects are gone from the heap (base_input's are the first on it).
ApplyToBase(sc) ==
    /\ base_input # NoValue
    /\ LET live == SubSeq(heap, 1, Cardinality(OwnAddresses(base_input)))
           r == _apply_scenario_parameters(live, base_input, sc)
       IN  /\ heap' = r.heap
           /\ modified_input' = r.input
           /\ arg_before' = InputDict(live, base_input)
    /\ argument' = base_input
    /\ scenario' = sc
    /\ chain' = 1
    /\ UNCHANGED <<now, uuid_counter, engine_vars, calls, route_vars,
                   base_input, base_before>>

\* The same scenario is applied once more, to the input the last call returned.
ApplyAgain ==
    /\ modified_input # NoValue
    /\ chain < MaxApplications
    /\ LET r == _apply_scenario_parameters(heap, modified_input, scenario)
       IN  /\ heap' = r.heap
           /\ modified_input' = r.input
    /\ arg_before' = InputDict(heap, modified_input)
    /\ argument' = modified_input
    /\ chain' = chain + 1
    /\ UNCHANGED <<now, uuid_counter, engine_vars, calls, route_vars,
                   base_input, base_before, scenario>>

ScenarioNext ==
    \/ \E sc \in Scenarios : ApplyToBase(sc)
    \/ ApplyAgain

ScenarioSpec == ScenarioInit /\ [][ScenarioNext]_vars

----------------------------------------------------------------------------
\* Properties of the scenario transformer (ScenarioSpec).

\* The value of the input the last call returned.
ModifiedValue == InputDict(heap, modified_input)

\* C11: applied with all-default ScenarioParameters, the transformer returns
\* an input equal to its argument in every field.
C11_DefaultScenarioIsNoOp ==
    (chain >= 1 /\ scenario = DefaultScenarioParameters) =>
        ModifiedValue = arg_before

\* C11's case: the default scenario was applied to an input that has
\* exercises the first loop would change, and supply profiles.
C11_Witness ==
    /\ chain >= 1
    /\ scenario = DefaultScenarioParameters
    /\ \E i \in 1..Len(arg_before.scheduled_exercises) :
           arg_before.scheduled_exercises[i].intensity = "medium"
    /\ Len(arg_before.lead_times) > 0

\* One step up the scale low < medium < high < critical, critical staying.
OneStepUp(intensity) ==
    IF intensity = "low" THEN "medium"
    ELSE IF intensity = "medium" THEN "high"
    ELSE "critical"

\* C12 (as claimed): with exercise_intensity_multiplier != 1.0 the
\* transformer raises every exercise's intensity exactly one step on the
\* scale low < medium < high < critical, critical staying critical.
C12_EveryIntensityOneStepUp ==
    (chain >= 1 /\ scenario.exercise_intensity_multiplier # 10) =>
        /\ Len(ModifiedValue.scheduled_exercises) = Len(arg_before.scheduled_exercises)
        /\ \A i \in 1..Len(arg_before.scheduled_exercises) :
               ModifiedValue.scheduled_exercises[i].intensity =
                   OneStepUp(arg_before.scheduled_exercises[i].intensity)

\* C13: with lead_time_increase_days = d > 0, every supply profile of the
\* output has average_lead_time = that of the argument + d, and every other
\* field equals the argument's (the exercises when the multiplier is 1.0).
C13_LeadTimesIncreasedByD ==
    (chain >= 1 /\ scenario.lead_time_increase_days > 0) =>
        /\ Len(ModifiedValue.lead_times) = Len(arg_before.lead_times)
        /\ \A i \in 1..Len(arg_before.lead_times) :
               ModifiedValue.lead_times[i] =
                   [arg_before.lead_times[i] EXCEPT !.average_lead_time =
                        @ + scenario.lead_time_increase_days]
        /\ ModifiedValue.current_readiness = arg_before.current_readiness
        /\ scenario.exercise_intensity_multiplier = 10 =>
               ModifiedValue.scheduled_exercises = arg_before.scheduled_exercises

\* C13's case: a positive increase applied, at multiplier 1.0, to an input
\* with supply profiles and exercises.
C13_Witness ==
    /\ chain >= 1
    /\ scenario.lead_time_increase_days > 0
    /\ scenario.exercise_intensity_multiplier = 10
    /\ Len(arg_before.lead_times) > 0
    /\ Len(arg_before.scheduled_exercises) > 0

\* C14: the transformer does not change its argument: after the call the
\* argument, its exercises and supply profiles included, has the value it
\* had before; base_input keeps the value it was loaded with through every
\* round of analyze_scenarios.
C14_ArgumentNotMutated ==
    chain >= 1 =>
        /\ InputDict(heap, argument) = arg_before
        /\ InputDict(heap, base_input) = base_before

\* C14's case: a call that changed both exercises and lead times in its
\* output.
C14_Witness ==
    /\ chain >= 1
    /\ ModifiedValue.scheduled_exercises # arg_before.scheduled_exercises
    /\ ModifiedValue.lead_times # arg_before.lead_times
    /\ argument = base_input

\* C15: a scenario that sets only parameters the transformer does not read,
\* with multiplier 1.0 and lead time increase 0, yields an output equal to
\* the argument.
C15_UnsupportedParametersChangeNothing ==
    (/\ chain >= 1
     /\ scenario # DefaultScenarioParameters
     /\ scenario.exercise_intensity_multiplier = 10
     /\ scenario.lead_time_increase_days = 0) =>
        ModifiedValue = arg_before

\* C15's case: such a scenario, applied to an input with exercises and
\* supply profiles.
C15_Witness ==
    /\ chain >= 1
    /\ scenario.additional_events = 2
    /\ scenario.supplier_reliability_factor = 8
    /\ scenario.exercise_intensity_multiplier = 10
    /\ scenario.lead_time_increase_days = 0
    /\ Len(arg_before.lead_times) > 0
    /\ Len(arg_before.scheduled_exercises) > 0

----------------------------------------------------------------------------
\* backend/routes/forecasting.py: accuracy tracking (update_forecast_accuracy,
\* _calculate_accuracy_score, validate_forecast_predictions).
\*
\* Ratios of readiness values are Python floats; the model keeps them as
\* exact fractions [num, den] in lowest terms with den > 0, so that equal
\* numbers are equal records.  An actual_data dict is [entries |-> the
\* (key, value) pairs in the dict's order]; values are in tenths of a percent.

RECURSIVE GCD(_, _)
GCD(a, b) == IF b = 0 THEN a ELSE GCD(b, a % b)

Abs(x) == IF x < 0 THEN -x ELSE x

\* The number num / den (den # 0).
Frac(num, den) ==
    LET g == GCD(Abs(num), Abs(den))
        sign == IF den < 0 THEN -1 ELSE 1
    IN  [num |-> sign * (num \div g), den |-> sign * (den \div g)]

FracZero == Frac(0, 1)
FracOne == Frac(1, 1)
FracAdd(a, b) == Frac(a.num * b.den + b.num * a.den, a.den * b.den)
FracSub(a, b) == Frac(a.num * b.den - b.num * a.den, a.den * b.den)
FracLess(a, b) == a.num * b.den < b.num * a.den
FracLeq(a, b) == a.num * b.den <= b.num * a.den

\* sum(errors).
RECURSIVE FracSum(_)
FracSum(fs) == IF fs = << >> THEN FracZero ELSE FracAdd(Head(fs), FracSum(Tail(fs)))

\* sum(fs) / len(fs), for a non-empty list.
FracMean(fs) ==
    LET total == FracSum(fs) IN Frac(total.num, total.den * Len(fs))

\* round(x, 3) for x >= 0, by long division to three decimals; a value half
\* way between two thousandths goes up (none of the values here is).
Round3(x) ==
    LET whole == x.num \div x.den
        r0 == x.num % x.den
        d1 == (r0 * 10) \div x.den
        r1 == (r0 * 10) % x.den
        d2 == (r1 * 10) \div x.den
        r2 == (r1 * 10) % x.den
        d3 == (r2 * 10) \div x.den
        r3 == (r2 * 10) % x.den
        thousandths == whole * 1000 + d1 * 100 + d2 * 10 + d3
                           + (IF 2 * r3 >= x.den THEN 1 ELSE 0)
    IN  Frac(thousandths, 1000)

\* The keys a request's actual_data uses, and int(days_str) of each; int()
\* strips zeros in front and raises ValueError on text that is no integer.
IntKeys == {"30", "60", "90", "45", "030"}
IntOf(key) ==
    CASE key = "30" -> 30
      [] key = "030" -> 30
      [] key = "60" -> 60
      [] key = "90" -> 90
      [] key = "45" -> 45
      [] OTHER -> -1

Entry(key, value) == [key |-> key, value |-> value]
ActualDict(entries) == [entries |-> entries]

\* The actual_data of the requests: readiness observed at a horizon, in
\* tenths of a percent.  862 and 845 are the 30-day values of the stored
\* forecasts, 640 a 60-day value, 835 a 90-day value.
ActualData ==
    { ActualDict(<< >>),
      ActualDict(<<Entry("30", 862)>>),
      ActualDict(<<Entry("30", 845), Entry("60", 640), Entry("90", 835)>>),
      ActualDict(<<Entry("30", 0)>>),
      ActualDict(<<Entry("30", 0), Entry("60", 640)>>),
      ActualDict(<<Entry("30", -845)>>),
      ActualDict(<<Entry("30", 1690)>>),
      ActualDict(<<Entry("30", 100)>>),
      ActualDict(<<Entry("45", 700)>>),
      ActualDict(<<Entry("soon", 800)>>),
      ActualDict(<<Entry("30", 845), Entry("030", 1690)>>),
      ActualDict(<<Entry("60", 640), Entry("45", 700)>>) }

\* Whether some projection of the list is for the horizon.
HasDays(projections, days) ==
    \E i \in 1..Len(projections) : projections[i].days = days

\* projected_values[days]: the dict keeps the last projection of a horizon.
ProjectedValue(projections, days) ==
    LET hits == {i \in 1..Len(projections) : projections[i].days = days}
    IN  projections[CHOOSE i \in hits : \A j \in hits : j <= i].readiness

\* abs(predicted - actual_readiness) / actual_readiness, for actual # 0.
RelativeError(predicted, actual) == Frac(Abs(predicted - actual), actual)

\* max(0, 1 - mape).
AccuracyOf(mape) ==
    LET raw == FracSub(FracOne, mape)
    IN  IF FracLess(raw, FracZero) THEN FracZero ELSE raw

\* _calculate_accuracy_score(forecast_result, actual_data).  Anything raised
\* inside (int() of a key that is no integer, the division by an actual of
\* 0.0) is caught by the function's own handler, which returns 0.0.
_calculate_accuracy_score(forecast_result, actual_data) ==
    LET projections == forecast_result.timeframe.projections
        entries == actual_data.entries
        Overlaps(e) == HasDays(projections, IntOf(e.key))
        raised == \E i \in 1..Len(entries) :
                      \/ entries[i].key \notin IntKeys
                      \/ Overlaps(entries[i]) /\ entries[i].value = 0
        overlapping == SelectSeq(entries, Overlaps)
        errors == [i \in 1..Len(overlapping) |->
                      RelativeError(
                          ProjectedValue(projections, IntOf(overlapping[i].key)),
                          overlapping[i].value)]
    IN  IF raised THEN FracZero
        ELSE IF errors = << >> THEN FracZero
        ELSE Round3(AccuracyOf(FracMean(errors)))

\* update_one({"forecast_id": forecast_id}, {"$set": fields}): the first
\* document with the id gets the fields.
UpdateOne(collection, forecast_id, fields) ==
    LET hits == {i \in 1..Len(collection) : collection[i].forecast_id = forecast_id}
    IN  IF hits = {} THEN collection
        ELSE [collection EXCEPT ![SetMin(hits)] =
                 [f \in DOMAIN @ \cup DOMAIN fields |->
                     IF f \in DOMAIN fields THEN fields[f] ELSE @[f]]]

\* POST /api/forecasts/{forecast_id}/accuracy.  The 404 raised for an unknown
\* id is caught by the handler's own `except Exception` and answered as 500.
update_forecast_accuracy(forecast_id, actual_readiness_data) ==
    /\ LET forecast_doc == FindOne(forecast_history, forecast_id)
           accuracy_score ==
               _calculate_accuracy_score(forecast_doc.result, actual_readiness_data)
       IN  IF forecast_doc = NoValue
           THEN /\ response' = [op |-> "accuracy", status |-> 500,
                                forecast_id |-> forecast_id, body |-> NoValue,
                                actual_data |-> actual_readiness_data]
                /\ UNCHANGED forecast_history
           ELSE /\ forecast_history' =
                       UpdateOne(forecast_history, forecast_id,
                                 [accuracy_score |-> accuracy_score,
                                  actual_vs_predicted |-> actual_readiness_data,
                                  accuracy_updated_at |-> now])
                /\ response' = [op |-> "accuracy", status |-> 200,
                                forecast_id |-> forecast_id,
                                body |-> [forecast_id |-> forecast_id,
                                          accuracy_score |-> accuracy_score,
                                          updated_at |-> now],
                                actual_data |-> actual_readiness_data]
    /\ UNCHANGED <<scenario_vars, now, uuid_counter, engine_vars, calls,
                   alert_history, background_tasks, store_failed>>

\* The accuracy as computed, without the clamp.
NotClamped(x) == x

\* max(0, min(1, overall_accuracy)).
Clamp01(x) ==
    IF FracLess(x, FracZero) THEN FracZero
    ELSE IF FracLess(FracOne, x) THEN FracOne ELSE x

\* The first projection of the forecast for the horizon (the inner loop
\* breaks at the first match).
MatchingProjection(projections, days) ==
    projections[SetMin({i \in 1..Len(projections) : projections[i].days = days})]

\* error / actual_value if actual_value > 0 else 0.
ErrorPercentage(error, actual_value) ==
    IF actual_value > 0 THEN Frac(error, actual_value) ELSE FracZero

\* The record validate appends for an entry with a matching projection.
ValidationRecord(entry, matching_projection) ==
    LET error == Abs(matching_projection.readiness - entry.value)
    IN  [days |-> IntOf(entry.key),
         predicted |-> matching_projection.readiness,
         actual |-> entry.value,
         error |-> error,
         error_percentage |-> ErrorPercentage(error, entry.value),
         within_confidence_interval |->
             /\ matching_projection.confidence_interval[1] <= entry.value
             /\ entry.value <= matching_projection.confidence_interval[2]]

\* The validation_results of a forecast for the entries of a request whose
\* keys are all integers.
ValidationResults(forecast, actual_data) ==
    LET projections == forecast.timeframe.projections
        Matches(e) == HasDays(projections, IntOf(e.key))
        matching == SelectSeq(actual_data.entries, Matches)
    IN  [i \in 1..Len(matching) |->
            ValidationRecord(matching[i],
                             MatchingProjection(projections, IntOf(matching[i].key)))]

\* 1 - (total_error / valid_comparisons) if valid_comparisons > 0 else 0,
\* clamped to [0, 1].
OverallAccuracy(validation_results) ==
    IF Len(validation_results) > 0
    THEN Clamp01(FracSub(FracOne,
             FracMean([i \in 1..Len(validation_results) |->
                          validation_results[i].error_percentage])))
    ELSE FracZero

\* POST /api/forecasts/{forecast_id}/validate.  An unknown id (404) and a key
\* that is no integer (ValueError) both end in the handler's `except
\* Exception`: status 500, nothing stored.
validate_forecast_predictions(forecast_id, actual_data) ==
    /\ LET forecast_doc == FindOne(forecast_history, forecast_id)
           raised == \/ forecast_doc = NoValue
                     \/ \E i \in 1..Len(actual_data.entries) :
                            actual_data.entries[i].key \notin IntKeys
           validation_results == ValidationResults(forecast_doc.result, actual_data)
           overall_accuracy == OverallAccuracy(validation_results)
       IN  IF raised
           THEN /\ response' = [op |-> "validate", status |-> 500,
                                forecast_id |-> forecast_id, body |-> NoValue,
                                actual_data |-> actual_data]
                /\ UNCHANGED forecast_history
           ELSE /\ forecast_history' =
                       UpdateOne(forecast_history, forecast_id,
                                 [accuracy_score |-> overall_accuracy,
                                  validation_results |-> validation_results,
                                  validated_at |-> now])
                /\ response' = [op |-> "validate", status |-> 200,
                                forecast_id |-> forecast_id,
                                body |-> [forecast_id |-> forecast_id,
                                          overall_accuracy |-> overall_accuracy,
                                          validation_results |-> validation_results,
                                          validated_comparisons |->
                                              Len(validation_results)],
                                actual_data |-> actual_data]
    /\ UNCHANGED <<scenario_vars, now, uuid_counter, engine_vars, calls,
                   alert_history, background_tasks, store_failed>>

\* A candidate that lists two projections for the 30-day horizon: 84.5, and
\* one without readiness, which gets current_readiness.
TwoProjectionsForOneHorizon ==
    TimeframeCandidate(
        << [days |-> Num(30), readiness |-> Num(845),
            confidence_interval |-> <<795, 895>>, risk_level |-> "low"],
           [days |-> Num(30)] >>)

\* The forecasts whose history documents the accuracy requests are about:
\* the rule-based forecast of the endpoint's readiness 86.7 and of a
\* readiness of 0.0, the forecast built from a full candidate, and the one
\* built from a candidate with two projections for one horizon.
StoredForecastSources ==
    { [current_readiness |-> 867, out |-> [kind |-> "raise", data |-> NoValue]],
      [current_readiness |-> 0, out |-> [kind |-> "raise", data |-> NoValue]],
      [current_readiness |-> 867, out |-> JsonOutcome(FullCandidate)],
      [current_readiness |-> 867, out |-> JsonOutcome(TwoProjectionsForOneHorizon)] }

\* The history document _store_forecast_history wrote for the first forecast
\* of the service, generated from the source.
StoredDocument(source) ==
    LET forecasting_input == ForecastingInput(source.current_readiness)
    IN  ForecastHistory(
            generate_forecast(forecasting_input, source.out, 0, 1).result,
            forecasting_input)

\* One forecast has been generated and stored.
AccuracyInit ==
    /\ now = 0
    /\ uuid_counter = 1
    /\ pc = "idle"
    /\ input_data = NoValue
    /\ llm = NoValue
    /\ ret = NoValue
    /\ calls = << >>
    /\ \E source \in StoredForecastSources :
           forecast_history = <<StoredDocument(source)>>
    /\ alert_history = << >>
    /\ background_tasks = {}
    /\ store_failed = {}
    /\ response = NoValue
    /\ heap = << >>
    /\ base_input = NoValue
    /\ base_before = NoValue
    /\ argument = NoValue
    /\ arg_before = NoValue
    /\ modified_input = NoValue
    /\ scenario = NoValue
    /\ chain = 0

\* The ids the accuracy requests name: the stored forecast's, and one no
\* forecast has.
AccuracyRequestIds == {NewForecastId(0, 1), NewForecastId(0, 0)}

AccuracyNext ==
    \/ \E forecast_id \in AccuracyRequestIds, actual_data \in ActualData :
           update_forecast_accuracy(forecast_id, actual_data)
    \/ \E forecast_id \in AccuracyRequestIds, actual_data \in ActualData :
           validate_forecast_predictions(forecast_id, actual_data)

AccuracySpec == AccuracyInit /\ [][AccuracyNext]_vars

----------------------------------------------------------------------------
\* Properties of accuracy tracking (AccuracySpec).

\* The last response is the 200 of the named operation.
Answered(op) ==
    response # NoValue /\ response.op = op /\ response.status = 200

\* The projections of the stored forecast the last request named.
StoredProjections ==
    FindOne(forecast_history, response.forecast_id).result.timeframe.projections

\* The entries of the last request whose key is a horizon of the stored
\* forecast, in the order of the request.
OverlapsStored(e) == e.key \in IntKeys /\ HasDays(StoredProjections, IntOf(e.key))
OverlappingEntries == SelectSeq(response.actual_data.entries, OverlapsStored)
NonZero(e) == e.value # 0

\* C16 (as claimed): in the accuracy score an overlapping horizon whose
\* actual value is 0 is skipped; the score is the one computed from the
\* remaining overlapping horizons.
C16_ZeroActualSkipped ==
    Answered("accuracy") =>
        LET remaining == SelectSeq(OverlappingEntries, NonZero)
            errors == [i \in 1..Len(remaining) |->
                          Frac(Abs(ProjectedValue(StoredProjections,
                                                  IntOf(remaining[i].key))
                                       - remaining[i].value),
                               remaining[i].value)]
            mape == FracMean(errors)
            claimed == IF errors = << >> THEN FracZero
                       ELSE IF FracLess(FracOne, mape) THEN FracZero
                       ELSE Round3(FracSub(FracOne, mape))
        IN  (\E i \in 1..Len(OverlappingEntries) : OverlappingEntries[i].value = 0)
                => response.body.accuracy_score = claimed

\* C17 (as claimed): the accuracy score lies in [0, 1]; it is 1.0 when
\* every overlapping predicted value equals its actual value, and 0.0 when
\* no horizon is in both the projections and the actuals.
C17_ScoreWithinUnitInterval ==
    Answered("accuracy") =>
        LET score == response.body.accuracy_score
        IN  /\ FracLeq(FracZero, score) /\ FracLeq(score, FracOne)
            /\ (/\ OverlappingEntries # << >>
                /\ \A i \in 1..Len(OverlappingEntries) :
                       OverlappingEntries[i].value =
                           ProjectedValue(StoredProjections,
                                          IntOf(OverlappingEntries[i].key)))
                   => score = FracOne
            /\ OverlappingEntries = << >> => score = FracZero

\* C18: validate emits one record per entry of the request whose horizon
\* matches a stored projection, in the request's order, and none for the
\* others; within_confidence_interval is true iff lower <= actual <= upper
\* of that projection; overall_accuracy is 1 - mean(error_percentage of the
\* records) clamped to [0, 1], and 0 when there are no records.  (A request
\* with a key that is no integer is answered with 500, without records.)
C18_ValidationRecordsAndAggregate ==
    Answered("validate") =>
        LET records == response.body.validation_results
            mean == FracMean([i \in 1..Len(records) |-> records[i].error_percentage])
        IN  /\ Len(records) = Len(OverlappingEntries)
            /\ \A i \in 1..Len(records) :
                   LET e == OverlappingEntries[i]
                       first == SetMin({j \in 1..Len(StoredProjections) :
                                           StoredProjections[j].days = IntOf(e.key)})
                       interval == StoredProjections[first].confidence_interval
                   IN  /\ records[i].days = IntOf(e.key)
                       /\ records[i].actual = e.value
                       /\ records[i].within_confidence_interval
                              <=> (interval[1] <= e.value /\ e.value <= interval[2])
            /\ response.body.overall_accuracy =
                   IF records = << >> THEN FracZero
                   ELSE IF FracLess(FracOne, mean) THEN FracZero
                   ELSE IF FracLess(mean, FracZero) THEN FracOne
                   ELSE FracSub(FracOne, mean)

\* C18's cases: an answer with two records, one inside and one outside the
\* interval, whose aggregate is strictly between 0 and 1.
C18_Witness ==
    /\ Answered("validate")
    /\ Len(response.body.validation_results) = 2
    /\ response.body.validation_results[1].within_confidence_interval
    /\ ~response.body.validation_results[2].within_confidence_interval
    /\ FracLess(FracZero, response.body.overall_accuracy)
    /\ FracLess(response.body.overall_accuracy, FracOne)

\* C19 (as claimed): in validate an overlapping horizon whose actual value
\* is 0 adds neither an error term nor a count to overall_accuracy.
C19_ZeroActualExcludedFromAggregate ==
    Answered("validate") =>
        LET records == response.body.validation_results
            HasActual(r) == r.actual # 0
            counted == SelectSeq(records, HasActual)
            mean == FracMean([i \in 1..Len(counted) |-> counted[i].error_percentage])
        IN  /\ response.body.validated_comparisons = Len(counted)
            /\ response.body.overall_accuracy =
                   IF counted = << >> THEN FracZero
                   ELSE IF FracLess(FracOne, mean) THEN FracZero
                   ELSE IF FracLess(mean, FracZero) THEN FracOne
                   ELSE FracSub(FracOne, mean)

----------------------------------------------------------------------------
\* backend/routes/forecasting.py: the accuracy aggregate get_accuracy_metrics.

\* Longest forecast history the aggregate is asked about.
MaxHistory == 6

\* The accuracy requests made about the forecasts of a history: none, or an
\* update with the actual data given (scores 0.0, 1.0 and 0.5 for the
\* rule-based forecast of readiness 86.7).
NotScored == ActualDict(<<Entry("none", 0)>>)
ScoringData ==
    { NotScored,
      ActualDict(<< >>),
      ActualDict(<<Entry("30", 862)>>),
      ActualDict(<<Entry("30", 1724)>>) }

\* The history document of the n-th forecast (the rule-based one, generated
\* on day 0), after the accuracy update with the data, if any.
ScoredDocument(n, actual_data) ==
    LET forecasting_input == ForecastingInput(867)
        forecast == _generate_fallback_forecast(forecasting_input, 0, n)
        doc == ForecastHistory(forecast, forecasting_input)
    IN  IF actual_data = NotScored THEN doc
        ELSE UpdateOne(<<doc>>, forecast.forecast_id,
                 [accuracy_score |-> _calculate_accuracy_score(forecast, actual_data),
                  actual_vs_predicted |-> actual_data,
                  accuracy_updated_at |-> 0])[1]

\* The days the clock shows when the aggregate is asked for, and the
\* days_back the request names.
MetricsDays == {0, 100}
DaysBack == {90, 365}

\* A history of forecasts, some of them scored, on one of the days.
MetricsInit ==
    /\ now \in MetricsDays
    /\ \E n \in 0..MaxHistory :
         \E data \in [1..n -> ScoringData] :
           /\ uuid_counter = n
           /\ forecast_history = [i \in 1..n |-> ScoredDocument(i, data[i])]
    /\ pc = "idle"
    /\ input_data = NoValue
    /\ llm = NoValue
    /\ ret = NoValue
    /\ calls = << >>
    /\ alert_history = << >>
    /\ background_tasks = {}
    /\ store_failed = {}
    /\ response = NoValue
    /\ heap = << >>
    /\ base_input = NoValue
    /\ base_before = NoValue
    /\ argument = NoValue
    /\ arg_before = NoValue
    /\ modified_input = NoValue
    /\ scenario = NoValue
    /\ chain = 0

\* find({"generated_at": {"$gte": cutoff_date}, "accuracy_score": {"$exists":
\* True, "$ne": None}}): the accuracy scores of the matching documents, in
\* the collection's order.
AccuracyScores(collection, cutoff_date) ==
    LET Matches(doc) == /\ doc.generated_at.day >= cutoff_date
                        /\ doc.accuracy_score # NoValue
        forecasts_with_accuracy == SelectSeq(collection, Matches)
    IN  [i \in 1..Len(forecasts_with_accuracy) |->
            forecasts_with_accuracy[i].accuracy_score]

\* 0.05, the threshold of the trend.
TrendThreshold == Frac(5, 100)

\* recent_trend for five scores or more, of which some are older than the
\* last five.
RecentTrend(accuracy_scores) ==
    LET n == Len(accuracy_scores)
        recent_avg == FracMean(SubSeq(accuracy_scores, n - 4, n))
        older_avg == FracMean(SubSeq(accuracy_scores, 1, n - 5))
    IN  IF FracLess(FracAdd(older_avg, TrendThreshold), recent_avg) THEN "improving"
        ELSE IF FracLess(recent_avg, FracSub(older_avg, TrendThreshold)) THEN "declining"
        ELSE "stable"

\* GET /api/forecasts/analytics/accuracy.  With exactly five scores
\* accuracy_scores[:-5] is empty and the division by its length raises
\* ZeroDivisionError, which the handler answers with 500.
get_accuracy_metrics(days_back) ==
    /\ LET accuracy_scores == AccuracyScores(forecast_history, now - days_back)
           overall_accuracy == FracMean(accuracy_scores)
       IN  response' =
               IF accuracy_scores = << >>
               THEN [op |-> "metrics", status |-> 200, days_back |-> days_back,
                     body |-> [overall_accuracy |-> FracZero,
                               recent_trend |-> "insufficient_data",
                               confidence_calibration |-> FracZero]]
               ELSE IF Len(accuracy_scores) = 5
               THEN [op |-> "metrics", status |-> 500, days_back |-> days_back,
                     body |-> NoValue]
               ELSE [op |-> "metrics", status |-> 200, days_back |-> days_back,
                     body |-> [overall_accuracy |-> overall_accuracy,
                               recent_trend |->
                                   IF Len(accuracy_scores) >= 5
                                   THEN RecentTrend(accuracy_scores)
                                   ELSE "stable",
                               confidence_calibration |-> Frac(85, 100)]]
    /\ UNCHANGED <<scenario_vars, now, uuid_counter, engine_vars, calls,
                   forecast_history, alert_history, background_tasks,
                   store_failed>>

MetricsNext == \E days_back \in DaysBack : get_accuracy_metrics(days_back)

MetricsSpec == MetricsInit /\ [][MetricsNext]_vars

\* C20 (as claimed): for every history with at least one accuracy score, of
\* any length, the aggregate returns without error, with overall_accuracy
\* the mean of the scores and a trend label among improving, declining and
\* stable; 'insufficient_data' is returned only for a history without scores.
C20_AggregateDefinedForEveryHistory ==
    (response # NoValue /\ response.op = "metrics") =>
        LET scores == AccuracyScores(forecast_history, now - response.days_back)
        IN  /\ scores # << >> =>
                   /\ response.status = 200
                   /\ response.body.overall_accuracy = FracMean(scores)
                   /\ response.body.recent_trend \in {"improving", "declining", "stable"}
            /\ scores = << >> =>
                   /\ response.status = 200
                   /\ response.body.recent_trend = "insufficient_data"

----------------------------------------------------------------------------
\* Accuracy data and ground truth (AccuracySpec).

\* The document records an actual value for a horizon of its own forecast:
\* among the actuals of the last update, or as a validation record.
HasGroundTruth(doc) ==
    \/ /\ "validation_results" \in DOMAIN doc
       /\ doc.validation_results # << >>
    \/ /\ doc.actual_vs_predicted # NoValue
       /\ \E i \in 1..Len(doc.actual_vs_predicted.entries) :
              LET e == doc.actual_vs_predicted.entries[i]
              IN  e.key \in IntKeys
                  /\ HasDays(doc.result.timeframe.projections, IntOf(e.key))

\* C21 (as claimed): a stored forecast has an accuracy_score only once an
\* update_forecast_accuracy or validate call for its forecast_id has
\* carried an actual value for one of its stored horizons.
C21_AccuracyOnlyAfterGroundTruth ==
    \A i \in 1..Len(forecast_history) :
        forecast_history[i].accuracy_score # NoValue
            => HasGroundTruth(forecast_history[i])

\* C29 (as claimed): for the same stored forecast and the same actuals, all
\* above 0, the overall_accuracy of validate equals, once rounded to three
\* decimals, the score _calculate_accuracy_score gives update_forecast_accuracy.
C29_BothEndpointsAgree ==
    (/\ Answered("validate")
     /\ \A i \in 1..Len(response.actual_data.entries) :
            response.actual_data.entries[i].value > 0) =>
        Round3(response.body.overall_accuracy) =
            _calculate_accuracy_score(
                FindOne(forecast_history, response.forecast_id).result,
                response.actual_data)

----------------------------------------------------------------------------
\* Properties of the rule-based forecast (FallbackSpec).  current_readiness
\* is a percentage: the values are those of [0, 100].

\* C22: on the fallback path, for current_readiness c and each horizon h of
\* 30, 60, 90, the projected readiness is clamp(c - 0.5 * (h / 30), 0, 100)
\* and the interval is [max(0, p - 5), min(100, p + 5)] for that value p.
C22_FallbackProjectionFormula ==
    \A k \in 1..Len(calls) :
        LET c == calls[k].input.current_readiness
            projections == calls[k].result.timeframe.projections
        IN  /\ Len(projections) = 3
            /\ \A i \in 1..3 :
                   LET h == 30 * i
                       linear == c - 5 * i
                       p == IF linear < 0 THEN 0
                            ELSE IF linear > 1000 THEN 1000 ELSE linear
                   IN  /\ projections[i].days = h
                       /\ projections[i].readiness = p
                       /\ projections[i].confidence_interval =
                              << (IF p - 50 < 0 THEN 0 ELSE p - 50),
                                 (IF p + 50 > 1000 THEN 1000 ELSE p + 50) >>

\* C22's cases: the forecast of 85.0 (84.5, 84.0, 83.5) and one whose
\* projections are held at 0.
C22_Witness ==
    /\ \E k \in 1..Len(calls) :
           /\ calls[k].input.current_readiness = 850
           /\ calls[k].result.timeframe.projections[1].readiness = 845
           /\ calls[k].result.timeframe.projections[2].readiness = 840
           /\ calls[k].result.timeframe.projections[3].readiness = 835
    /\ \E k \in 1..Len(calls) :
           /\ calls[k].input.current_readiness = 3
           /\ calls[k].result.timeframe.projections[1].readiness = 0

\* C23: on the fallback path a projection's risk_level is a function of its
\* readiness p alone: critical if p < 50, high if 50 <= p < 65, medium if
\* 65 <= p < 80, low if p >= 80.
C23_FallbackRiskLevels ==
    \A k \in 1..Len(calls) :
        \A i \in 1..Len(calls[k].result.timeframe.projections) :
            LET p == calls[k].result.timeframe.projections[i].readiness
                level == calls[k].result.timeframe.projections[i].risk_level
            IN  /\ p < 500 => level = "critical"
                /\ (500 <= p /\ p < 650) => level = "high"
                /\ (650 <= p /\ p < 800) => level = "medium"
                /\ p >= 800 => level = "low"

\* C23's cases: two forecasts whose 30-day readings are the thresholds 80.0
\* and 50.0 themselves.
C23_Witness ==
    /\ \E k \in 1..Len(calls) :
           calls[k].result.timeframe.projections[1].readiness = 800
    /\ \E k \in 1..Len(calls) :
           calls[k].result.timeframe.projections[1].readiness = 500

\* round(x) of a value in tenths: to the nearest integer, a half to the even
\* one.
RoundToInteger(tenths) ==
    LET q == tenths \div 10
        r == tenths % 10
    IN  IF r > 5 \/ (r = 5 /\ q % 2 = 1) THEN q + 1 ELSE q

\* C24 (as claimed): on the fallback path exactly one CriticalAlert is
\* emitted when some projection has readiness < 70 and none otherwise; the
\* alert has severity medium, projected_need 80 and current_stock_level
\* equal to current_readiness rounded to the nearest integer.
C24_FallbackAlert ==
    \A k \in 1..Len(calls) :
        LET result == calls[k].result
            low == \E i \in 1..Len(result.timeframe.projections) :
                       result.timeframe.projections[i].readiness < 700
        IN  /\ Len(result.critical_alerts) = (IF low THEN 1 ELSE 0)
            /\ low =>
                   /\ result.critical_alerts[1].severity = "medium"
                   /\ result.critical_alerts[1].projected_need = 80
                   /\ result.critical_alerts[1].current_stock_level =
                          RoundToInteger(calls[k].input.current_readiness)

----------------------------------------------------------------------------
\* TimeSeriesAnalyzer (services/forecasting_engine.py).  Quantities and rates
\* are exact fractions; a standard deviation is kept as the fraction it is
\* the square root of.

MaxObservations == 6

FracMul(a, b) == Frac(a.num * b.num, a.den * b.den)

\* The non-negative number whose square is f.
Sqrt(f) == [squared |-> f]

\* The value of a square root that is rational.
IntRoot(n) == CHOOSE r \in 0..n : r * r = n
Root(v) == Frac(IntRoot(v.squared.num), IntRoot(v.squared.den))

\* q > base + k * volatility, for k >= 0: squares are compared once the
\* difference is known to be positive.
ExceedsThreshold(q, base, volatility, k) ==
    LET d == FracSub(Frac(q, 1), base)
    IN  /\ d.num > 0
        /\ FracLess(FracMul(Frac(k * k, 1), volatility.squared), FracMul(d, d))

\* UsageData: an observation of a day (dates as day numbers, which order as
\* the 'YYYY-MM-DD' strings do).
UsageData(date, quantity_used) == [date |-> date, quantity_used |-> quantity_used]

Quantities == {10, 20, 100}

\* The usage lists: up to MaxObservations observations of consecutive days,
\* oldest first, or newest first as _get_usage_trends builds them.
UsageLists ==
    UNION { { [i \in 1..n |-> UsageData(i, q[i])] : q \in [1..n -> Quantities] }
            \cup { [i \in 1..n |-> UsageData(n + 1 - i, q[i])] : q \in [1..n -> Quantities] }
          : n \in 0..MaxObservations }

\* mean(quantities) of a non-empty list of integers.
RECURSIVE SumSeq(_)
SumSeq(xs) == IF xs = << >> THEN 0 ELSE Head(xs) + SumSeq(Tail(xs))
Mean(xs) == Frac(SumSeq(xs), Len(xs))

\* stdev(quantities)^2: the sample variance, for two values or more.
Variance(xs) ==
    LET m == Mean(xs)
        squares == [i \in 1..Len(xs) |->
                       FracMul(FracSub(Frac(xs[i], 1), m), FracSub(Frac(xs[i], 1), m))]
        total == FracSum(squares)
    IN  Frac(total.num, total.den * (Len(xs) - 1))

\* trend_direction of the quantities in the order given.
TrendDirection(quantities) ==
    LET n == Len(quantities)
        first_half == Mean(SubSeq(quantities, 1, n \div 2))
        second_half == Mean(SubSeq(quantities, (n \div 2) + 1, n))
    IN  IF n < 5 THEN "stable"
        ELSE IF FracLess(FracMul(first_half, Frac(11, 10)), second_half) THEN "increasing"
        ELSE IF FracLess(second_half, FracMul(first_half, Frac(9, 10))) THEN "decreasing"
        ELSE "stable"

\* The flags with the threshold three deviations above the mean.
AnomalyFlagsAtThree(quantities, base_consumption_rate, volatility) ==
    LET anomalous == {i \in 1..Len(quantities) :
                         ExceedsThreshold(quantities[i], base_consumption_rate, volatility, 3)}
    IN  IF volatility.squared.num > 0 /\ anomalous # {}
        THEN << [anomalous_count |-> Cardinality(anomalous),
                 text |-> "anomalous consumption periods detected"] >>
        ELSE << >>

\* anomaly_flags: one flag naming the count of the quantities above
\* base_consumption_rate + 2 * volatility, when volatility > 0 and some are.
AnomalyFlags(quantities, base_consumption_rate, volatility) ==
    LET anomalous == {i \in 1..Len(quantities) :
                         ExceedsThreshold(quantities[i], base_consumption_rate, volatility, 2)}
    IN  IF volatility.squared.num > 0 /\ anomalous # {}
        THEN << [anomalous_count |-> Cardinality(anomalous),
                 text |-> "anomalous consumption periods detected"] >>
        ELSE << >>

ConsumptionPattern(base_consumption_rate, trend_direction, volatility, anomaly_flags) == [base_consumption_rate |-> base_consumption_rate, seasonal_adjustments |-> [current_factor |-> 10], trend_direction |-> trend_direction, volatility |-> volatility, anomaly_flags |-> anomaly_flags]

\* analyze_consumption_patterns(usage_data): the pattern returned, and the
\* list as the call leaves it (the method only reads it).
analyze_consumption_patterns(usage_data) ==
    LET quantities == [i \in 1..Len(usage_data) |-> usage_data[i].quantity_used]
        base_consumption_rate == Mean(quantities)
        volatility == IF Len(quantities) > 1 THEN Sqrt(Variance(quantities))
                      ELSE Sqrt(FracZero)
    IN  [pattern |->
             IF usage_data = << >>
             THEN ConsumptionPattern(FracZero, "stable", Sqrt(FracZero), << >>)
             ELSE ConsumptionPattern(base_consumption_rate,
                                     TrendDirection(quantities),
                                     volatility,
                                     AnomalyFlags(quantities, base_consumption_rate, volatility)),
         usage_data |-> usage_data]

\* intensity_multipliers.get(intensity, 1.5), in tenths.
IntensityMultiplier(intensity) ==
    CASE intensity = "low" -> 12
      [] intensity = "medium" -> 15
      [] intensity = "high" -> 20
      [] intensity = "critical" -> 30
      [] OTHER -> 15

\* project_future_consumption(pattern, exercises, days).  7 / days raises
\* ZeroDivisionError inside the loop over the exercises when days is 0.
project_future_consumption(pattern, exercises, days) ==
    LET base_consumption == FracMul(pattern.base_consumption_rate, Frac(days, 30))
        impacts == [i \in 1..Len(exercises) |->
                       FracMul(FracMul(base_consumption,
                                       Frac(IntensityMultiplier(exercises[i].intensity) - 10, 10)),
                               Frac(7, days))]
        exercise_impact == FracSum(impacts)
        projected_consumption == FracAdd(base_consumption, exercise_impact)
        volatility == Root(pattern.volatility)
        consumption_margin == FracMul(volatility, Frac(1, 2))
        lower == FracSub(projected_consumption, consumption_margin)
        risk_factors ==
            (IF pattern.trend_direction = "increasing"
             THEN <<"Increasing consumption trend detected">> ELSE << >>)
            \o (IF FracLess(FracMul(pattern.base_consumption_rate, Frac(1, 2)), volatility)
                THEN <<"High consumption volatility">> ELSE << >>)
            \o (IF FracLess(FracMul(base_consumption, Frac(3, 10)), exercise_impact)
                THEN <<"High exercise impact on consumption">> ELSE << >>)
    IN  IF exercises # << >> /\ days = 0
        THEN [raised |-> "ZeroDivisionError"]
        ELSE [raised |-> "none",
              expected_consumption |-> projected_consumption,
              confidence_range |-> << (IF FracLess(lower, FracZero) THEN FracZero ELSE lower),
                                      FracAdd(projected_consumption, consumption_margin) >>,
              risk_factors |-> risk_factors]

\* The patterns, exercise lists and horizons of the projections.
PatternRates == {0, 30, 45}
PatternVolatilities == {0, 10, 40}
Patterns ==
    { ConsumptionPattern(Frac(r, 1), t, Sqrt(Frac(v * v, 1)), << >>) :
          r \in PatternRates, v \in PatternVolatilities, t \in {"stable", "increasing"} }
ExerciseIntensities == IntensityLevel \cup {"extreme"}
ExerciseLists ==
    UNION { [1..n -> [intensity : ExerciseIntensities]] : n \in 0..MaxExercises }
HorizonDays == {0, 7, 30, 90}

\* The arguments of one call of the analyzer.
AnalyzerInputs ==
    { [op |-> "analyze", usage_data |-> u] : u \in UsageLists }
    \cup { [op |-> "project", pattern |-> p, exercises |-> e, days |-> d] :
               p \in Patterns, e \in ExerciseLists, d \in HorizonDays }

AnalyzerInit ==
    /\ now = 0
    /\ uuid_counter = 0
    /\ pc = "idle"
    /\ input_data \in AnalyzerInputs
    /\ llm = NoValue
    /\ ret = NoValue
    /\ calls = << >>
    /\ forecast_history = << >>
    /\ alert_history = << >>
    /\ background_tasks = {}
    /\ store_failed = {}
    /\ response = NoValue
    /\ heap = << >>
    /\ base_input = NoValue
    /\ base_before = NoValue
    /\ argument = NoValue
    /\ arg_before = NoValue
    /\ modified_input = NoValue
    /\ scenario = NoValue
    /\ chain = 0

AnalyzeConsumptionPatterns ==
    /\ pc = "idle"
    /\ input_data.op = "analyze"
    /\ ret' = analyze_consumption_patterns(input_data.usage_data)
    /\ pc' = "done"
    /\ UNCHANGED <<scenario_vars, now, uuid_counter, input_data, llm, calls, route_vars>>

ProjectFutureConsumption ==
    /\ pc = "idle"
    /\ input_data.op = "project"
    /\ ret' = project_future_consumption(input_data.pattern, input_data.exercises,
                                         input_data.days)
    /\ pc' = "done"
    /\ UNCHANGED <<scenario_vars, now, uuid_counter, input_data, llm, calls, route_vars>>

AnalyzerNext == AnalyzeConsumptionPatterns \/ ProjectFutureConsumption

AnalyzerSpec == AnalyzerInit /\ [][AnalyzerNext]_vars

----------------------------------------------------------------------------
\* Properties of the analyzer (AnalyzerSpec).

Analyzed == pc = "done" /\ input_data.op = "analyze"
Projected == pc = "done" /\ input_data.op = "project"

\* The quantities of a usage list, oldest observation first.
Chronological(usage_data) ==
    LET sorted == SortSeq(usage_data, LAMBDA a, b : a.date < b.date)
    IN  [i \in 1..Len(sorted) |-> sorted[i].quantity_used]

\* C25 (as claimed): analyze_consumption_patterns returns the default
\* pattern for no observations and 'stable' for fewer than 5; for 5 or more
\* it takes the quantities in the order of their dates, splits them at
\* floor(n/2), and answers 'increasing' iff mean(second) > 1.10 *
\* mean(first), 'decreasing' iff mean(second) < 0.90 * mean(first), else
\* 'stable'.
C25_TrendOfChronologicalHalves ==
    Analyzed =>
        LET q == Chronological(input_data.usage_data)
            n == Len(q)
            a == Mean(SubSeq(q, 1, n \div 2))
            b == Mean(SubSeq(q, (n \div 2) + 1, n))
            trend == ret.pattern.trend_direction
        IN  /\ n = 0 => ret.pattern =
                            ConsumptionPattern(FracZero, "stable", Sqrt(FracZero), << >>)
            /\ n < 5 => trend = "stable"
            /\ n >= 5 =>
                   /\ trend = "increasing" <=> 10 * b.num * a.den > 11 * a.num * b.den
                   /\ trend = "decreasing" <=> 10 * b.num * a.den < 9 * a.num * b.den
                   /\ trend \in {"increasing", "decreasing", "stable"}

\* C26: analyze_consumption_patterns returns exactly one anomaly flag iff
\* some quantity is strictly greater than base_consumption_rate + 2 *
\* volatility (the mean plus twice the sample standard deviation), no flag
\* otherwise, and leaves the list it was given unchanged.
C26_OneFlagIffAnomaly ==
    Analyzed =>
        LET u == input_data.usage_data
            n == Len(u)
            S == SumSeq([i \in 1..n |-> u[i].quantity_used])
            squares == SumSeq([i \in 1..n |-> (n * u[i].quantity_used - S)
                                                * (n * u[i].quantity_used - S)])
            Above(i) == LET d == n * u[i].quantity_used - S
                        IN  d > 0 /\ d * d * (n - 1) > 4 * squares
            some == \E i \in 1..n : Above(i)
        IN  /\ Len(ret.pattern.anomaly_flags) = (IF some THEN 1 ELSE 0)
            /\ ret.usage_data = u

\* C26's case: a list with a quantity above the threshold has been analyzed
\* and flagged once.
C26_Witness ==
    /\ Analyzed
    /\ Len(ret.pattern.anomaly_flags) = 1
    /\ ret.pattern.anomaly_flags[1].anomalous_count = 1
    /\ Len(input_data.usage_data) = 6

\* C27 (as claimed): project_future_consumption returns a projection without
\* raising for every pattern, exercise list and horizon (a horizon of 0 with
\* exercises included), with expected_consumption = base + the sum over the
\* exercises of base * (multiplier - 1) * (7 / horizon), base = rate *
\* (horizon / 30), and 0 <= min <= expected <= max, max - expected = 0.5 *
\* volatility.
C27_ProjectionNeverRaises ==
    Projected =>
        /\ ret.raised = "none"
        /\ LET days == input_data.days
               rate == input_data.pattern.base_consumption_rate
               e == input_data.exercises
               \* base * (m - 1) * 7 / days = rate * (m - 1) * 7 / 30
               total == FracSum([i \in 1..Len(e) |->
                            Frac(rate.num * (IntensityMultiplier(e[i].intensity) - 10) * 7,
                                 rate.den * 10 * 30)])
               expected == FracAdd(Frac(rate.num * days, rate.den * 30), total)
               half_volatility == Frac(IntRoot(input_data.pattern.volatility.squared.num), 2)
           IN  /\ ret.expected_consumption = expected
               /\ FracLeq(FracZero, ret.confidence_range[1])
               /\ FracLeq(ret.confidence_range[1], ret.expected_consumption)
               /\ FracLeq(ret.expected_consumption, ret.confidence_range[2])
               /\ FracSub(ret.confidence_range[2], ret.expected_consumption) = half_volatility

----------------------------------------------------------------------------
\* POST /api/forecasts/{forecast_id}/scenarios (routes/forecasting.py).

MaxScenarios == 2

\* ForecastingInput(**base_forecast_doc["input_parameters"]): the objects of
\* the stored input, built anew, and the input that lists their addresses.
LoadedInput(input_parameters) ==
    LET ne == Len(input_parameters.scheduled_exercises)
        nl == Len(input_parameters.lead_times)
    IN  [heap |-> input_parameters.scheduled_exercises \o input_parameters.lead_times,
         input |-> [current_readiness |-> input_parameters.current_readiness,
                    scheduled_exercises |-> [i \in 1..ne |-> i],
                    lead_times |-> [i \in 1..nl |-> ne + i]]]

\* readiness_impact: the last scenario projection minus the last base
\* projection, 0 when either list is empty.
ReadinessImpact(scenario_projections, base_projections) ==
    IF scenario_projections # << >> /\ base_projections # << >>
    THEN scenario_projections[Len(scenario_projections)].readiness
             - base_projections[Len(base_projections)].readiness
    ELSE 0

\* ScenarioResult(...) of one round of the loop.
ScenarioResult(sc, base_forecast, scenario_forecast, clock) ==
    LET projections == scenario_forecast.timeframe.projections
        recs == scenario_forecast.procurement_recommendations
    IN  [base_readiness |-> base_forecast.timeframe.current_readiness,
         scenario_readiness |->
             IF projections # << >> THEN projections[Len(projections)].readiness
             ELSE base_forecast.timeframe.current_readiness,
         readiness_impact |->
             ReadinessImpact(projections, base_forecast.timeframe.projections),
         risk_assessment |->
             [critical_alerts |-> Len(scenario_forecast.critical_alerts),
              high_priority_recommendations |->
                  Cardinality({j \in 1..Len(recs) : recs[j].priority \in {"urgent", "high"}})],
         recommendations |-> scenario_forecast.mitigation_strategies,
         timeline_comparison |-> projections,
         metadata |-> [scenario_parameters |-> sc, generated_at |-> clock]]

\* The handler: the stored forecast is read, and each scenario of the
\* request is applied to its input and forecast.  A forecast that is not
\* found raises a 404 inside the try block, which answers 500.  `paths`
\* records which path of the engine produced each scenario forecast.
analyze_scenarios(forecast_id, scenarios, outs) ==
    /\ LET base_forecast_doc == FindOne(forecast_history, forecast_id)
           base_forecast == base_forecast_doc.result
           base == LoadedInput(base_forecast_doc.input_parameters)
           Forecast(i) ==
               LET applied == _apply_scenario_parameters(base.heap, base.input, scenarios[i])
                   modified_in == InputDict(applied.heap, applied.input)
               IN  generate_forecast(modified_in, outs[i], now, uuid_counter + i)
       IN  IF base_forecast_doc = NoValue
           THEN /\ response' = [op |-> "scenarios", status |-> 500,
                                forecast_id |-> forecast_id,
                                body |-> NoValue, paths |-> << >>]
                /\ UNCHANGED uuid_counter
           ELSE /\ response' =
                       [op |-> "scenarios", status |-> 200,
                        forecast_id |-> forecast_id,
                        body |-> [i \in 1..Len(scenarios) |->
                                     ScenarioResult(scenarios[i], base_forecast,
                                                    Forecast(i).result, now)],
                        paths |-> [i \in 1..Len(scenarios) |-> Forecast(i).path]]
                /\ uuid_counter' = uuid_counter + Len(scenarios)
    /\ UNCHANGED <<scenario_vars, now, engine_vars, calls, forecast_history,
                   alert_history, background_tasks, store_failed>>

\* One request: a forecast id, up to MaxScenarios scenarios, and the outcome
\* of the service call of each (it raises, or answers with a candidate).
\* The handler writes nothing a later request reads, so a behaviour holds
\* one request.
AnalyzeScenarios ==
    /\ response = NoValue
    /\ \E forecast_id \in AccuracyRequestIds, n \in 0..MaxScenarios :
           \E scenarios \in [1..n -> Scenarios], outs \in [1..n -> RouteOutcomes] :
               analyze_scenarios(forecast_id, scenarios, outs)

AnalysisNext == AnalyzeScenarios

AnalysisSpec == AccuracyInit /\ [][AnalysisNext]_vars

----------------------------------------------------------------------------
\* Properties of the scenario analysis (AnalysisSpec).

\* C28: when the base forecast and a scenario's forecast both come from the
\* fallback path, the scenario's projections are those of the base forecast
\* and its readiness_impact is 0, whatever the scenario.
C28_FallbackScenariosChangeNothing ==
    (/\ Answered("scenarios")
     /\ FindOne(forecast_history, response.forecast_id).result.metadata.generated_as
            = "fallback_rule_based") =>
        \A i \in 1..Len(response.body) :
            response.paths[i] = "fallback" =>
                /\ response.body[i].timeline_comparison =
                       FindOne(forecast_history, response.forecast_id).result.timeframe.projections
                /\ response.body[i].readiness_impact = 0

\* C28's case: a scenario that escalates the exercises, lengthens the lead
\* times or constrains the budget was analyzed against a fallback forecast
\* and forecast by the fallback path.
C28_Witness ==
    /\ Answered("scenarios")
    /\ FindOne(forecast_history, response.forecast_id).result.metadata.generated_as
           = "fallback_rule_based"
    /\ Len(response.body) = 2
    /\ response.paths = <<"fallback", "fallback">>
    /\ response.body[1].metadata.scenario_parameters.exercise_intensity_multiplier = 15
    /\ response.body[1].metadata.scenario_parameters.lead_time_increase_days = 7
    /\ response.body[2].metadata.scenario_parameters.budget_constraint_percentage = 800
    /\ response.body[1].readiness_impact = 0
    /\ response.body[2].readiness_impact = 0

----------------------------------------------------------------------------
\* Properties of the store task (Spec).

\* The alert documents of a forecast, in the order of their insertion.
AlertsOf(forecast_id) ==
    SelectSeq(alert_history, LAMBDA a : a.forecast_id = forecast_id)

\* What the two collections hold at any moment: every alert document is
\* 'active' and belongs to a forecast whose history document is there; a
\* forecast has one history document, and its alert documents are those of
\* its critical alerts in order, all of them unless the task failed.
StoredAlertsFollowHistory ==
    /\ \A k \in 1..Len(alert_history) :
           /\ alert_history[k].status = "active"
           /\ Stored(alert_history[k].forecast_id)
    /\ \A i, j \in 1..Len(forecast_history) :
           forecast_history[i].forecast_id = forecast_history[j].forecast_id => i = j
    /\ \A i \in 1..Len(forecast_history) :
           LET doc == forecast_history[i]
               alerts == AlertsOf(doc.forecast_id)
               critical == doc.result.critical_alerts
           IN  /\ Len(alerts) <= Len(critical)
               /\ doc.forecast_id \notin store_failed => Len(alerts) = Len(critical)
               /\ \A k \in 1..Len(alerts) :
                      /\ alerts[k].category = critical[k].category
                      /\ alerts[k].severity = critical[k].severity
                      /\ alerts[k].predicted_date = critical[k].expected_shortage_date

\* A step of a store task: the task leaves the queue.
StoreStep == background_tasks' # background_tasks /\ background_tasks' \subseteq background_tasks

\* C30: _store_forecast_history writes one forecast_history record for the
\* forecast and then one alert_history record per critical alert, each with
\* status 'active' and the forecast's forecast_id; no alert record is written
\* for a forecast whose history insert failed; and a failure of the task
\* raises nothing: the response of the generate request stays as it was.
C30_StoreWritesHistoryThenAlerts ==
    /\ []StoredAlertsFollowHistory
    /\ [][StoreStep => response' = response]_vars

\* C30's cases: one forecast's history insert failed and it has no alert
\* document, another forecast is stored with the document of its alert, and
\* the last generate request was answered with 200.
C30_Witness ==
    /\ \E id \in store_failed : ~Stored(id) /\ AlertsOf(id) = << >>
    /\ \E i \in 1..Len(forecast_history) :
           /\ forecast_history[i].forecast_id \notin store_failed
           /\ Len(forecast_history[i].result.critical_alerts) = 1
           /\ Len(AlertsOf(forecast_history[i].forecast_id)) = 1
    /\ response # NoValue /\ response.op = "generate" /\ response.status = 200

====
